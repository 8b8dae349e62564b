--------------------------- MODULE WifiLinkProofs ---------------------------
(***************************************************************************)
(* Theorems about module WifiLink, for every line length, set of streams,  *)
(* timeout and number of commands that its assumptions allow.              *)
(***************************************************************************)
EXTENDS WifiLink, FiniteSetTheorems, TLAPS

-----------------------------------------------------------------------------
(* Type correctness. *)

LEMMA ThreePieces ==
    ASSUME NEW a \in Char, NEW b \in Char, NEW c \in Char
    PROVE  <<a, b>> \o <<c>> \in Seq(Char) /\ Len(<<a, b>> \o <<c>>) = 3
  <1>1. <<a, b>> \in Seq(Char) /\ Len(<<a, b>>) = 2
    OBVIOUS
  <1>2. <<c>> \in Seq(Char) /\ Len(<<c>>) = 1
    OBVIOUS
  <1> QED
    BY <1>1, <1>2

LEMMA TwoPieces ==
    ASSUME NEW a \in Char, NEW b \in Char
    PROVE  <<a, b>> \o <<>> \in Seq(Char) /\ Len(<<a, b>> \o <<>>) = 2
  <1>1. <<a, b>> \in Seq(Char) /\ Len(<<a, b>>) = 2
    OBVIOUS
  <1>2. <<>> \in Seq(Char) /\ Len(<<>>) = 0
    OBVIOUS
  <1> QED
    BY <1>1, <1>2

\* A reply that consists of these three pieces, or of these two.
Consists(t, a, b, c) ==
    t \in Seq(Char) /\ Len(t) = 3 /\ t[1] = a /\ t[2] = b /\ t[3] = c
ConsistsOfTwo(t, a, b) ==
    t \in Seq(Char) /\ Len(t) = 2 /\ t[1] = a /\ t[2] = b

LEMMA Concatenated ==
    ASSUME NEW a \in Char, NEW b \in Char, NEW c \in Char
    PROVE  Consists(<<a, b>> \o <<c>>, a, b, c)
  <1>1. <<a, b>> \o <<c>> \in Seq(Char) /\ Len(<<a, b>> \o <<c>>) = 3
    BY ThreePieces
  <1>2. (<<a, b>> \o <<c>>)[1] = a /\ (<<a, b>> \o <<c>>)[2] = b
    OBVIOUS
  <1>3. (<<a, b>> \o <<c>>)[3] = c
    OBVIOUS
  <1> QED
    BY <1>1, <1>2, <1>3, Zenon DEF Consists

LEMMA ConcatenatedTwo ==
    ASSUME NEW a \in Char, NEW b \in Char
    PROVE  ConsistsOfTwo(<<a, b>> \o <<>>, a, b)
  <1>1. <<a, b>> \o <<>> \in Seq(Char) /\ Len(<<a, b>> \o <<>>) = 2
    BY TwoPieces
  <1>2. (<<a, b>> \o <<>>)[1] = a /\ (<<a, b>> \o <<>>)[2] = b
    OBVIOUS
  <1> QED
    BY <1>1, <1>2, Zenon DEF ConsistsOfTwo

LEMMA TextPieces ==
    /\ Consists(NoneText \o <<EOL>>, "No", "ne", EOL)
    /\ Consists(StartText \o <<EOL>>, "Start ", "transfer", EOL)
    /\ Consists(CompleteText \o <<EOL>>, "Com", "plete", EOL)
    /\ Consists(RejectText \o <<EOL>>, "Unknown ", "command", EOL)
    /\ Consists(OkText \o <<EOL>>, "o", "k", EOL)
    /\ \A s \in Streams :
         /\ Consists(StreamText(s) \o <<EOL>>, s, ",0", EOL)
         /\ ConsistsOfTwo(StreamText(s) \o <<>>, s, ",0")
  <1>1. /\ EOL \in Char /\ ",0" \in Char /\ "No" \in Char /\ "ne" \in Char
        /\ "Start " \in Char /\ "transfer" \in Char /\ "Com" \in Char
        /\ "plete" \in Char /\ "Unknown " \in Char /\ "command" \in Char
        /\ "o" \in Char /\ "k" \in Char /\ Streams \subseteq Char
    BY DEF Char, Pieces
  <1>2. \A a, b, c \in Char : Consists(<<a, b>> \o <<c>>, a, b, c)
    BY Concatenated, Zenon
  <1>3. \A a, b \in Char : ConsistsOfTwo(<<a, b>> \o <<>>, a, b)
    BY ConcatenatedTwo, Zenon
  <1>4. /\ Consists(NoneText \o <<EOL>>, "No", "ne", EOL)
        /\ Consists(StartText \o <<EOL>>, "Start ", "transfer", EOL)
        /\ Consists(CompleteText \o <<EOL>>, "Com", "plete", EOL)
    BY <1>1, <1>2, Zenon DEF NoneText, StartText, CompleteText
  <1>5. /\ Consists(RejectText \o <<EOL>>, "Unknown ", "command", EOL)
        /\ Consists(OkText \o <<EOL>>, "o", "k", EOL)
    BY <1>1, <1>2, Zenon DEF RejectText, OkText
  <1>6. ASSUME NEW s \in Streams
        PROVE  /\ Consists(StreamText(s) \o <<EOL>>, s, ",0", EOL)
               /\ ConsistsOfTwo(StreamText(s) \o <<>>, s, ",0")
    <2>1. s \in Char
      BY <1>1
    <2> QED
      BY <1>1, <1>2, <1>3, <2>1, Zenon DEF StreamText
  <1> QED
    BY <1>4, <1>5, <1>6

\* Texts are sequences of characters.
LEMMA TextTypes ==
    /\ NoneText \o <<EOL>> \in Seq(Char) /\ Len(NoneText \o <<EOL>>) = 3
    /\ StartText \o <<EOL>> \in Seq(Char) /\ Len(StartText \o <<EOL>>) = 3
    /\ CompleteText \o <<EOL>> \in Seq(Char) /\ Len(CompleteText \o <<EOL>>) = 3
    /\ RejectText \o <<EOL>> \in Seq(Char) /\ Len(RejectText \o <<EOL>>) = 3
    /\ OkText \o <<EOL>> \in Seq(Char) /\ Len(OkText \o <<EOL>>) = 3
    /\ \A s \in Streams :
         /\ StreamText(s) \o <<EOL>> \in Seq(Char)
         /\ Len(StreamText(s) \o <<EOL>>) = 3
         /\ StreamText(s) \o <<>> \in Seq(Char)
         /\ Len(StreamText(s) \o <<>>) = 2
  BY TextPieces DEF Consists, ConsistsOfTwo

LEMMA CharTypes == NUL \notin Char /\ NoChar \notin Char
  BY StreamsAssumption DEF Char, Pieces, NUL, NoChar, EOL

\* A command's timeout survives its truncation to an uint8_t.
LEMMA TimeoutTypes ==
    \A kind \in Kinds : /\ Truncated(Timeout(kind)) \in 0 .. CountMod - 1
                        /\ Truncated(Timeout(kind)) # 0
  <1>1. \A t \in Nat : t % CountMod \in 0 .. CountMod - 1
    BY TimeoutAssumption
  <1>2. \A kind \in Kinds : \/ Timeout(kind) = ShortTimeout
                           \/ Timeout(kind) = LongTimeout
    BY DEF Timeout
  <1> QED
    BY <1>1, <1>2, TimeoutAssumption DEF Truncated

LEMMA InitType == Init => TypeOK
  <1> SUFFICES ASSUME Init PROVE TypeOK
    OBVIOUS
  <1>1. input_line_wifi \in [Cells -> Char \cup {NUL}]
    BY DEF Init, EmptyLine
  <1>2. 0 \in 0 .. MaxCommands /\ 0 \in 0 .. MaxImage /\ 0 \in 0 .. CountMod - 1
    BY BoundAssumption, TimeoutAssumption
  <1>3. cmd \in Command
    BY <1>2 DEF Init, NoCommand, Command, Kinds
  <1>4. reported \in [id : 0 .. MaxCommands, open : SUBSET Streams]
    BY <1>2 DEF Init
  <1>5. stream_open \in [Streams -> BOOLEAN]
    BY DEF Init
  <1>6. inbox \in Seq(Command) /\ reply \in Seq(Char)
    BY DEF Init
  <1>7. NoReply \in Replies
    BY BoundAssumption DEF Replies, NoReply
  <1>8. /\ us_rhr \in Char \cup {NoChar} /\ listing \subseteq Streams
        /\ comm_edge \in Replies /\ answering \in Replies /\ lastEdge \in Replies
        /\ input_pos_wifi \in Nat
    BY <1>7 DEF Init
  <1> QED
    BY <1>1, <1>2, <1>3, <1>4, <1>5, <1>6, <1>8 DEF Init, TypeOK

\* What the module takes of the image leaves it with a type-correct inbox.
LEMMA TakeDataType ==
    ASSUME TypeOK, expecting > 0, TakeData
    PROVE  expecting' \in 0 .. MaxImage /\ inbox' \in Seq(Command)
  <1>1. [cmd EXCEPT !.id = CompleteReport] \in Command
    BY BoundAssumption DEF TypeOK, Command, CompleteReport
  <1>2. inbox' \in Seq(Command)
    BY <1>1 DEF TypeOK, TakeData
  <1> QED
    BY <1>2, BoundAssumption DEF TypeOK, TakeData

LEMMA StepType == TypeOK /\ [Next]_vars => TypeOK'
  <1> SUFFICES ASSUME TypeOK, [Next]_vars PROVE TypeOK'
    OBVIOUS
  <1> USE DEF mainVars, flagVars, lineVars, moduleVars
  <1>1. ASSUME NEW kind \in Kinds, NEW size \in 0 .. MaxImage, Call(kind, size)
        PROVE  TypeOK'
    <2>1. cmd' \in Command
      BY <1>1, BoundAssumption DEF TypeOK, Call, Command
    <2>2. cnt' \in 0 .. CountMod - 1 /\ counts' \in 0 .. CountMod - 1
      BY <1>1, TimeoutTypes, TimeoutAssumption DEF Call
    <2> QED
      BY <1>1, <2>1, <2>2 DEF TypeOK, Call
  <1>2. CASE ClearComplete
    BY <1>2 DEF TypeOK, ClearComplete
  <1>3. CASE SendLine
    <2>1. expecting' \in 0 .. MaxImage /\ inbox' \in Seq(Command)
      BY <1>3, TakeDataType DEF TypeOK, SendLine
    <2> QED
      BY <1>3, <2>1 DEF TypeOK, SendLine
  <1>4. CASE WaitReturn
    BY <1>4 DEF TypeOK, WaitReturn
  <1>5. CASE PutChar
    <2>1. expecting' \in 0 .. MaxImage /\ inbox' \in Seq(Command)
      BY <1>5, TakeDataType DEF TypeOK, PutChar
    <2>2. sent' \in 0 .. MaxImage
      BY <1>5, BoundAssumption DEF TypeOK, PutChar, Command
    <2> QED
      BY <1>5, <2>1, <2>2 DEF TypeOK, PutChar
  <1>6. CASE StreamReturn
    BY <1>6, BoundAssumption DEF TypeOK, StreamReturn
  <1>7. CASE Tick
    <2>1. counts' \in 0 .. CountMod - 1
      BY <1>7, TimeoutAssumption DEF TypeOK, Tick
    <2> QED
      BY <1>7, <2>1 DEF TypeOK, Tick
  <1>8. CASE RxISR
    <2>1. us_rhr \in Char /\ us_rhr' = NoChar
      BY <1>8 DEF TypeOK, RxISR
    <2>2. input_line_wifi' \in [Cells -> Char \cup {NUL}]
      BY <1>8, <2>1 DEF TypeOK, RxISR
    <2>3. input_pos_wifi' \in Nat
      BY <1>8 DEF TypeOK, RxISR
    <2> QED
      BY <1>8, <2>1, <2>2, <2>3 DEF TypeOK, RxISR
  <1>9. CASE CommISR
    <2>1. input_line_wifi' \in [Cells -> Char \cup {NUL}]
      BY <1>9 DEF CommISR, ClearedLine, EmptyLine
    <2>2. /\ no_open_streams' \in BOOLEAN /\ stream_open' \in [Streams -> BOOLEAN]
          /\ image_transf_ready' \in BOOLEAN /\ image_transf_complete' \in BOOLEAN
      <3>1. CASE Occurs(UnknownText, input_line_wifi)
        BY <1>9, <3>1 DEF TypeOK, CommISR, ParseLine
      <3>2. CASE ~Occurs(UnknownText, input_line_wifi)
        BY <1>9, <3>2 DEF TypeOK, CommISR, ParseLine, Occurs
      <3> QED
        BY <3>1, <3>2
    <2> QED
      BY <1>9, <2>1, <2>2, BoundAssumption
         DEF TypeOK, CommISR, Replies, NoReply
  <1>10. CASE ModuleAnswer
    <2>a. inbox \in Seq(Command) /\ inbox # <<>>
      BY <1>10 DEF TypeOK, ModuleAnswer
    <2>1. Head(inbox) \in Command /\ Tail(inbox) \in Seq(Command)
      BY <2>a
    <2>b. Head(inbox).id \in Replies
      BY <2>1, BoundAssumption DEF Command, Replies, NoReply
    <2>2. answering' \in Replies
      BY <1>10, <2>b DEF ModuleAnswer
    <2>3. /\ reply' \in Seq(Char) /\ listing' \subseteq Streams
          /\ expecting' \in 0 .. MaxImage
          /\ reported' \in [id : 0 .. MaxCommands, open : SUBSET Streams]
      <3>1. CASE Head(inbox).id = CompleteReport
        BY <1>10, <3>1, TextTypes DEF TypeOK, ModuleAnswer
      <3>2. CASE Head(inbox).id # CompleteReport /\ Head(inbox).kind = "poll_all"
        <4>1. PICK open \in SUBSET Streams :
                /\ listing' = open
                /\ reply' = IF open = {} THEN NoneText \o <<EOL>> ELSE <<>>
                /\ reported' = [id |-> Head(inbox).id, open |-> open]
                /\ UNCHANGED expecting
          BY <1>10, <3>2 DEF ModuleAnswer
        <4>2. reply' \in Seq(Char)
          BY <4>1, TextTypes
        <4>3. Head(inbox).id \in 0 .. MaxCommands
          BY <2>1 DEF Command
        <4> QED
          BY <4>1, <4>2, <4>3 DEF TypeOK
      <3>3. CASE Head(inbox).id # CompleteReport /\ Head(inbox).kind = "image_transfer"
        BY <1>10, <2>1, <3>3, TextTypes DEF TypeOK, ModuleAnswer, Command
      <3>4. CASE Head(inbox).id # CompleteReport
                   /\ Head(inbox).kind \notin {"poll_all", "image_transfer"}
        BY <1>10, <3>4, TextTypes DEF TypeOK, ModuleAnswer
      <3> QED
        BY <3>1, <3>2, <3>3, <3>4
    <2> QED
      BY <1>10, <2>1, <2>2, <2>3 DEF TypeOK, ModuleAnswer
  <1>11. CASE ModuleRefuse
    <2>a. inbox \in Seq(Command) /\ inbox # <<>>
      BY <1>11 DEF TypeOK, ModuleRefuse
    <2>1. Head(inbox) \in Command /\ Tail(inbox) \in Seq(Command)
      BY <2>a
    <2>2. answering' \in Replies
      BY <1>11, <2>1, BoundAssumption DEF ModuleRefuse, Command, Replies, NoReply
    <2> QED
      BY <1>11, <2>1, <2>2, TextTypes DEF TypeOK, ModuleRefuse
  <1>12. CASE ModuleIgnore
    BY <1>12 DEF TypeOK, ModuleIgnore
  <1>13. CASE ModuleList
    <2>1. reply' \in Seq(Char) /\ listing' \subseteq Streams
      BY <1>13, TextTypes DEF TypeOK, ModuleList
    <2> QED
      BY <1>13, <2>1 DEF TypeOK, ModuleList
  <1>14. CASE ModuleChar
    <2>1. Head(reply) \in Char /\ Tail(reply) \in Seq(Char)
      BY <1>14 DEF TypeOK, ModuleChar
    <2> QED
      BY <1>14, <2>1 DEF TypeOK, ModuleChar
  <1>15. CASE ModuleEdge
    BY <1>15, BoundAssumption DEF TypeOK, ModuleEdge, Replies, NoReply
  <1>16. CASE ModuleHold
    BY <1>16 DEF TypeOK, ModuleHold
  <1>17. CASE ModuleReady
    BY <1>17 DEF TypeOK, ModuleReady
  <1>18. CASE UNCHANGED vars
    BY <1>18 DEF TypeOK, vars
  <1> QED
    BY <1>1, <1>2, <1>3, <1>4, <1>5, <1>6, <1>7, <1>8, <1>9, <1>10, <1>11,
       <1>12, <1>13, <1>14, <1>15, <1>16, <1>17, <1>18
       DEF Next, Program, Interrupts, Module

\* Every variable keeps its type; in particular the 1 Hz counter stays an
\* uint8_t and no handler leaves a character of no type in the line.
THEOREM TypeCorrect == Spec => []TypeOK
  BY InitType, StepType, PTL DEF Spec

-----------------------------------------------------------------------------
(* Acknowledgments.  For a module that answers within the command's timeout *)
(* and never unasked, at most one answer is under way and it is due.        *)

LEMMA AckInit == Init => AckInv
  <1> SUFFICES ASSUME Init PROVE AckInv
    OBVIOUS
  <1>1. /\ pc = "idle" /\ inbox = <<>> /\ answering = NoReply
        /\ comm_edge = NoReply /\ lastEdge = -1 /\ cmd.id = 0
    BY DEF Init, NoCommand, NoReply
  <1>2. Len(inbox) <= 1 /\ lastEdge <= cmd.id
    BY <1>1
  <1> QED
    BY <1>1, <1>2 DEF AckInv, NoneUnderWay

\* A module that does not report transfers keeps its inbox while it takes data.
LEMMA TakeDataKeepsInbox ==
    ASSUME OnTime, TakeData
    PROVE  inbox' = inbox
  BY DEF OnTime, TakeData

\* Steps that touch neither the answer under way nor the wait.
LEMMA AckFrame ==
    ASSUME AckInv,
           UNCHANGED <<cmd, cnt, counts, wifi_cmd_complete, inbox, answering,
                       comm_edge, lastEdge>>,
           pc' = pc
    PROVE  AckInv'
  BY DEF AckInv, NoneUnderWay, WaitOver

LEMMA AckStep == OnTime /\ TypeOK /\ AckInv /\ [Next]_vars => AckInv'
  <1> SUFFICES ASSUME OnTime, TypeOK, AckInv, [Next]_vars PROVE AckInv'
    OBVIOUS
  <1> USE DEF mainVars, flagVars, lineVars, moduleVars
  <1>0. /\ cmd.id \in Nat /\ cnt \in Nat /\ counts \in Nat
        /\ cnt < CountMod /\ CountMod \in Nat
        /\ comm_edge \in Int /\ answering \in Int /\ lastEdge \in Int
        /\ inbox \in Seq(Command)
    BY TimeoutAssumption, BoundAssumption DEF TypeOK, Command, Replies, NoReply
  <1>1. ASSUME NEW kind \in Kinds, NEW size \in 0 .. MaxImage, Call(kind, size)
        PROVE  AckInv'
    <2>1. NoneUnderWay
      BY <1>1 DEF Call, AckInv
    <2>2. cmd'.id = cmd.id + 1
      BY <1>1 DEF Call
    <2>3. counts' < cnt'
      BY <1>1, TimeoutTypes, TimeoutAssumption DEF Call
    <2>4. lastEdge' < cmd'.id /\ lastEdge' # cmd'.id
      BY <1>0, <1>1, <2>2 DEF Call, AckInv
    <2>5. NoneUnderWay'
      BY <1>1, <2>1 DEF Call, NoneUnderWay
    <2> QED
      BY <1>0, <1>1, <2>2, <2>3, <2>4, <2>5 DEF Call, AckInv, NoneUnderWay
  <1>2. CASE ClearComplete
    BY <1>0, <1>2 DEF ClearComplete, AckInv, NoneUnderWay
  <1>3. CASE SendLine
    <2>1. NoneUnderWay /\ ~WaitOver /\ lastEdge # cmd.id
      BY <1>0, <1>3 DEF SendLine, AckInv, WaitOver
    <2>2. CASE expecting > 0
      <3>1. inbox' = inbox
        BY <1>3, <2>2, TakeDataKeepsInbox DEF SendLine
      <3> QED
        BY <1>0, <1>3, <2>1, <3>1 DEF SendLine, AckInv, NoneUnderWay, WaitOver
    <2>3. CASE ~(expecting > 0)
      <3>1. inbox' = <<cmd>>
        BY <1>3, <2>1, <2>3 DEF SendLine, NoneUnderWay
      <3>2. Len(inbox') = 1 /\ inbox'[1].id = cmd.id
        BY <3>1
      <3> QED
        BY <1>0, <1>3, <2>1, <3>1, <3>2
           DEF SendLine, AckInv, NoneUnderWay, WaitOver
    <2> QED
      BY <2>2, <2>3
  <1>4. CASE WaitReturn
    BY <1>0, <1>4 DEF WaitReturn, AckInv, NoneUnderWay, WaitOver
  <1>5. CASE PutChar
    <2>1. inbox' = inbox
      BY <1>5, TakeDataKeepsInbox DEF PutChar
    <2> QED
      BY <1>5, <2>1, AckFrame DEF PutChar
  <1>6. CASE StreamReturn
    BY <1>0, <1>6 DEF StreamReturn, AckInv, NoneUnderWay, WaitOver
  <1>7. CASE Tick
    <2>1. ~NoneUnderWay => Owed
      <3>1. CASE inbox # <<>>
        <4>1. 1 \in 1 .. Len(inbox)
          BY <1>0, <3>1
        <4> QED
          BY <3>1, <4>1 DEF Owed, AckInv, NoneUnderWay
      <3> QED
        BY <3>1 DEF Owed, AckInv, NoneUnderWay
    <2>2. pc \in {"clear", "send"} => Owed
      BY DEF Owed
    <2>3. Owed => counts + 1 < cnt
      BY <1>7 DEF Tick, OnTime
    <2>4. Owed => counts' = counts + 1
      BY <1>0, <1>7, <2>3 DEF Tick
    <2>5. Owed => counts' < cnt
      BY <2>3, <2>4
    <2> QED
      BY <1>0, <1>7, <2>1, <2>2, <2>5 DEF Tick, AckInv, NoneUnderWay, WaitOver
  <1>8. CASE RxISR
    BY <1>8, AckFrame DEF RxISR
  <1>9. CASE CommISR
    <2>1. inbox = <<>> /\ answering = NoReply /\ comm_edge = cmd.id
      BY <1>0, <1>9 DEF CommISR, AckInv
    <2>2. pc = "wait"
      BY <1>9 DEF CommISR, AckInv, NoneUnderWay
    <2> QED
      BY <1>0, <1>9, <2>1, <2>2 DEF CommISR, AckInv, NoneUnderWay
  <1>10. ASSUME answering = NoReply, inbox # <<>>, answering' = Head(inbox).id,
                inbox' = Tail(inbox), pc' = pc,
                UNCHANGED <<cmd, cnt, counts, wifi_cmd_complete, comm_edge,
                            lastEdge>>
         PROVE  AckInv'
    <2>1. inbox' = <<>> /\ Head(inbox) = inbox[1]
      BY <1>0, <1>10 DEF AckInv
    <2>2. answering' = cmd.id /\ comm_edge = NoReply /\ pc = "wait"
      BY <1>10, <2>1 DEF AckInv, NoneUnderWay
    <2> QED
      BY <1>0, <1>10, <2>1, <2>2 DEF AckInv, NoneUnderWay, WaitOver
  <1>11. CASE ModuleAnswer
    BY <1>11, <1>10 DEF ModuleAnswer
  <1>12. CASE ModuleRefuse
    BY <1>12, <1>10 DEF ModuleRefuse
  <1>13. CASE ModuleIgnore
    <2>1. inbox' = <<>>
      BY <1>0, <1>13 DEF ModuleIgnore, AckInv
    <2> QED
      BY <1>0, <1>13, <2>1 DEF ModuleIgnore, AckInv, NoneUnderWay, WaitOver
  <1>14. CASE ModuleList
    BY <1>14, AckFrame DEF ModuleList
  <1>15. CASE ModuleChar
    BY <1>15, AckFrame DEF ModuleChar
  <1>16. CASE ModuleEdge
    <2>1. inbox = <<>> /\ comm_edge' = cmd.id /\ answering' = NoReply
      BY <1>0, <1>16 DEF ModuleEdge, AckInv
    <2>2. ~NoneUnderWay
      BY <1>16 DEF ModuleEdge, NoneUnderWay
    <2> QED
      BY <1>0, <1>16, <2>1, <2>2 DEF ModuleEdge, AckInv, NoneUnderWay, WaitOver
  <1>17. CASE ModuleHold
    BY <1>17, AckFrame DEF ModuleHold
  <1>18. CASE ModuleReady
    BY <1>18, AckFrame DEF ModuleReady
  <1>19. CASE UNCHANGED vars
    BY <1>19, AckFrame DEF vars
  <1> QED
    BY <1>1, <1>2, <1>3, <1>4, <1>5, <1>6, <1>7, <1>8, <1>9, <1>11, <1>12,
       <1>13, <1>14, <1>15, <1>16, <1>17, <1>18, <1>19
       DEF Next, Program, Interrupts, Module

\* The inductive invariant holds on a link whose module answers in time.
THEOREM AckInvariant ==
    ASSUME OnTime PROVE Spec => []AckInv
  <1>1. Init => TypeOK /\ AckInv
    BY InitType, AckInit
  <1>2. TypeOK /\ AckInv /\ [Next]_vars => (TypeOK /\ AckInv)'
    BY StepType, AckStep
  <1> QED
    BY <1>1, <1>2, PTL DEF Spec

\* wifi.c:247 "waits either for an acknowledgment": the acknowledgment that ends
\* a wait is the command's own.
THEOREM AckIsOwnHolds ==
    ASSUME OnTime PROVE Spec => []AckIsOwn
  <1>1. AckInv => AckIsOwn
    BY DEF AckInv, AckIsOwn
  <1> QED
    BY <1>1, AckInvariant, PTL

-----------------------------------------------------------------------------
(* The reply line.  process_incoming_byte_wifi() checks no bound; it needs  *)
(* none while a reply is no longer than the module's longest one, because   *)
(* at most one character of a reply outlives the clearing of its line.      *)

LEMMA ListingSize ==
    /\ Cardinality(Streams) \in Nat /\ Cardinality(Streams) >= 1
    /\ \A S \in SUBSET Streams :
         /\ IsFiniteSet(S) /\ Cardinality(S) \in Nat
         /\ Cardinality(S) <= Cardinality(Streams)
         /\ \A s \in S : Cardinality(S \ {s}) = Cardinality(S) - 1
         /\ S # {} => Cardinality(S) >= 1
  <1>1. \A S \in SUBSET Streams :
          /\ IsFiniteSet(S) /\ Cardinality(S) \in Nat
          /\ Cardinality(S) <= Cardinality(Streams)
    BY StreamsAssumption, FS_Subset, FS_CardinalityType
  <1>2. \A S \in SUBSET Streams : \A s \in S :
            Cardinality(S \ {s}) = Cardinality(S) - 1
    BY <1>1, FS_RemoveElement
  <1>3. \A S \in SUBSET Streams : S # {} => Cardinality(S) >= 1
    BY <1>1, FS_EmptySet
  <1> QED
    BY <1>1, <1>2, <1>3, StreamsAssumption

LEMMA LineInit == Init => LineInv
  <1> SUFFICES ASSUME Init PROVE LineInv
    OBVIOUS
  <1>1. ToCome = 0
    BY DEF Init, ToCome
  <1>2. LongestReply \in Nat
    BY ListingSize DEF LongestReply
  <1>3. \A i \in Cells : input_line_wifi[i] = NUL /\ i >= input_pos_wifi
    BY LineAssumption DEF Init, EmptyLine, Cells
  <1> QED
    BY <1>1, <1>2, <1>3 DEF Init, LineInv

\* Steps that leave the line, the receiver and the reply alone.
LEMMA LineFrame ==
    ASSUME LineInv,
           UNCHANGED <<input_line_wifi, input_pos_wifi, us_rhr, comm_edge,
                       answering, reply, listing>>
    PROVE  LineInv'
  BY DEF LineInv, ToCome

\* A new reply, begun when the line holds at most one character.
LEMMA NewReply ==
    ASSUME TypeOK, LineInv, answering = NoReply, answering' # NoReply,
           UNCHANGED <<input_line_wifi, input_pos_wifi, us_rhr, comm_edge>>,
           \/ listing' = {} /\ Len(reply') = 3
           \/ listing' \in SUBSET Streams /\ listing' # {} /\ reply' = <<>>
    PROVE  LineInv'
  <1>1. LongestReply \in Nat /\ LongestReply >= 3
    BY ListingSize DEF LongestReply
  <1>2. ToCome = IF us_rhr = NoChar THEN 0 ELSE 1
    BY DEF LineInv, ToCome
  <1>3. ToCome' \in Nat /\ ToCome' <= ToCome + LongestReply
    <2>1. CASE listing' = {} /\ Len(reply') = 3
      BY <1>1, <1>2, <2>1 DEF ToCome
    <2>2. CASE listing' \in SUBSET Streams /\ listing' # {} /\ reply' = <<>>
      <3>1. /\ Cardinality(listing') \in Nat
            /\ 2 * Cardinality(listing') + 1 <= LongestReply
        BY <2>2, ListingSize DEF LongestReply
      <3>2. Len(reply') = 0
        BY <2>2
      <3> QED
        BY <1>1, <1>2, <2>2, <3>1, <3>2 DEF ToCome
    <2> QED
      BY <2>1, <2>2
  <1>4. input_pos_wifi \in Nat
    BY DEF TypeOK
  <1>5. LongestReply' = LongestReply
    BY DEF LongestReply
  <1>6. /\ comm_edge = NoReply => input_pos_wifi + ToCome <= 1
        /\ input_pos_wifi <= LongestReply + 1
    BY DEF LineInv
  <1>7. ToCome \in Nat /\ ToCome <= 1
    BY <1>2
  <1>a. input_pos_wifi' = input_pos_wifi /\ comm_edge' = comm_edge
    OBVIOUS
  <1>b. \A l, p, t, u \in Nat : u <= t + l =>
          /\ p + t <= 1 => p + u <= l + 1
          /\ t <= 1 => u <= l + 1
    OBVIOUS
  <1>c. ToCome' <= LongestReply + 1
    BY <1>1, <1>3, <1>7, <1>b
  <1>d. input_pos_wifi + ToCome <= 1 => input_pos_wifi + ToCome' <= LongestReply + 1
    BY <1>1, <1>3, <1>4, <1>7, <1>b
  <1>8. /\ comm_edge' = NoReply => input_pos_wifi' + ToCome' <= LongestReply + 1
        /\ ToCome' <= LongestReply + 1
    BY <1>6, <1>a, <1>c, <1>d
  <1> QED
    BY <1>5, <1>8 DEF LineInv

LEMMA LineStep == TypeOK /\ LineInv /\ [Next]_vars => LineInv'
  <1> SUFFICES ASSUME TypeOK, LineInv, [Next]_vars PROVE LineInv'
    OBVIOUS
  <1> USE DEF mainVars, flagVars, lineVars, moduleVars
  <1>0. /\ LongestReply \in Nat /\ LongestReply + 1 < MAX_INPUT_WIFI
        /\ MAX_INPUT_WIFI \in Nat /\ input_pos_wifi \in Nat
        /\ reply \in Seq(Char) /\ Len(reply) \in Nat
        /\ listing \in SUBSET Streams /\ Cardinality(listing) \in Nat
        /\ ToCome \in Nat
    <2>1. LongestReply \in Nat /\ LongestReply + 1 < MAX_INPUT_WIFI
      BY LineAssumption, ListingSize DEF LongestReply
    <2>2. /\ reply \in Seq(Char) /\ Len(reply) \in Nat
          /\ listing \in SUBSET Streams /\ input_pos_wifi \in Nat
      BY DEF TypeOK
    <2>3. Cardinality(listing) \in Nat
      BY <2>2, ListingSize
    <2>4. ToCome \in Nat
      BY <2>2, <2>3 DEF ToCome
    <2> QED
      BY <2>1, <2>2, <2>3, <2>4, LineAssumption
  <1>1. CASE RxISR
    <2>1. us_rhr \in Char /\ us_rhr # NoChar /\ us_rhr # NUL /\ us_rhr' = NoChar
      BY <1>1, CharTypes DEF RxISR, TypeOK
    <2>a. reply' = reply /\ listing' = listing
      BY <1>1 DEF RxISR
    <2>2. ToCome' = ToCome - 1 /\ ToCome >= 1
      BY <1>0, <2>1, <2>a DEF ToCome
    <2>3. input_pos_wifi + 1 <= LongestReply + 1
      BY <1>0, <1>1, <2>2 DEF RxISR, LineInv
    <2>4. input_pos_wifi \in Cells
      BY <1>0, <2>3 DEF Cells
    <2>5. input_line_wifi' = [input_line_wifi EXCEPT ![input_pos_wifi] = us_rhr]
      BY <1>1 DEF RxISR
    <2>6. \A i \in Cells : input_line_wifi'[i] = NUL <=> i >= input_pos_wifi'
      <3> SUFFICES ASSUME NEW i \in Cells
                   PROVE  input_line_wifi'[i] = NUL <=> i >= input_pos_wifi + 1
        BY <1>1 DEF RxISR
      <3>1. i \in Int
        BY <1>0 DEF Cells
      <3>2. input_line_wifi[i] = NUL <=> i >= input_pos_wifi
        BY DEF LineInv
      <3>3. CASE i = input_pos_wifi
        BY <1>0, <2>1, <2>4, <2>5, <3>1, <3>3 DEF TypeOK
      <3>4. CASE i # input_pos_wifi
        BY <1>0, <2>4, <2>5, <3>1, <3>2, <3>4 DEF TypeOK
      <3> QED
        BY <3>3, <3>4
    <2> QED
      BY <1>0, <1>1, <2>2, <2>3, <2>6 DEF RxISR, LineInv, LongestReply
  <1>2. CASE CommISR
    <2>1. input_pos_wifi' = 0 /\ comm_edge' = NoReply
      BY <1>2 DEF CommISR
    <2>2. UNCHANGED <<us_rhr, answering, reply, listing>>
      BY <1>2 DEF CommISR
    <2>3. ToCome' = ToCome
      BY <2>2 DEF ToCome
    <2>4. answering = NoReply => ToCome <= 1
      BY DEF LineInv, ToCome
    <2>5. \A i \in Cells : input_line_wifi'[i] = NUL /\ i >= 0
      BY <1>0, <1>2 DEF CommISR, ClearedLine, EmptyLine, Cells
    <2> QED
      BY <1>0, <2>1, <2>2, <2>3, <2>4, <2>5 DEF LineInv, LongestReply
  <1>3. CASE ModuleAnswer
    <2>1. inbox \in Seq(Command) /\ inbox # <<>>
      BY <1>3 DEF TypeOK, ModuleAnswer
    <2>2. Head(inbox) \in Command
      BY <2>1
    <2>b. Head(inbox).id \in Int /\ Head(inbox).id # NoReply
      BY <2>2, BoundAssumption DEF Command, NoReply
    <2>3. answering = NoReply /\ answering' # NoReply
      BY <1>3, <2>b DEF ModuleAnswer
    <2>4. listing = {}
      BY <2>3 DEF LineInv
    <2>5. \/ listing' = {} /\ Len(reply') = 3
          \/ listing' \in SUBSET Streams /\ listing' # {} /\ reply' = <<>>
      <3>1. CASE Head(inbox).id = CompleteReport
        BY <1>3, <2>4, <3>1, TextTypes DEF ModuleAnswer
      <3>2. CASE Head(inbox).id # CompleteReport /\ Head(inbox).kind = "poll_all"
        <4>1. PICK open \in SUBSET Streams :
                /\ listing' = open
                /\ reply' = IF open = {} THEN NoneText \o <<EOL>> ELSE <<>>
          BY <1>3, <3>2 DEF ModuleAnswer
        <4> QED
          BY <4>1, TextTypes
      <3>3. CASE Head(inbox).id # CompleteReport /\ Head(inbox).kind = "image_transfer"
        BY <1>3, <2>4, <3>3, TextTypes DEF ModuleAnswer
      <3>4. CASE Head(inbox).id # CompleteReport
                   /\ Head(inbox).kind \notin {"poll_all", "image_transfer"}
        BY <1>3, <2>4, <3>4, TextTypes DEF ModuleAnswer
      <3> QED
        BY <3>1, <3>2, <3>3, <3>4
    <2> QED
      BY <1>3, <2>3, <2>5, NewReply DEF ModuleAnswer
  <1>4. CASE ModuleRefuse
    <2>1. inbox \in Seq(Command) /\ inbox # <<>>
      BY <1>4 DEF TypeOK, ModuleRefuse
    <2>2. Head(inbox) \in Command
      BY <2>1
    <2>b. Head(inbox).id \in Int /\ Head(inbox).id # NoReply
      BY <2>2, BoundAssumption DEF Command, NoReply
    <2>3. answering = NoReply /\ answering' # NoReply
      BY <1>4, <2>b DEF ModuleRefuse
    <2>4. listing' = {} /\ Len(reply') = 3
      BY <1>4, <2>3, TextTypes DEF ModuleRefuse, LineInv
    <2> QED
      BY <1>4, <2>3, <2>4, NewReply DEF ModuleRefuse
  <1>5. CASE ModuleList
    <2>1. PICK s \in listing :
            /\ listing' = listing \ {s}
            /\ reply' = StreamText(s) \o (IF listing' = {} THEN <<EOL>> ELSE <<>>)
      BY <1>5 DEF ModuleList
    <2>2. Cardinality(listing') = Cardinality(listing) - 1 /\ s \in Streams
      BY <1>0, <2>1, ListingSize
    <2>3. Len(reply') = IF listing' = {} THEN 3 ELSE 2
      BY <2>1, <2>2, TextTypes
    <2>4. listing' = {} => Cardinality(listing') = 0
      BY FS_EmptySet
    <2>5. Len(reply) = 0 /\ listing # {} /\ us_rhr' = us_rhr
      BY <1>5, <2>1 DEF ModuleList
    <2>6. ToCome' = ToCome
      BY <1>0, <2>2, <2>3, <2>4, <2>5 DEF ToCome
    <2>7. answering # NoReply /\ answering' = answering
      BY <1>5, <2>5 DEF ModuleList, LineInv
    <2> QED
      BY <1>5, <2>6, <2>7 DEF ModuleList, LineInv, LongestReply
  <1>6. CASE ModuleChar
    <2>1. Len(reply') = Len(reply) - 1 /\ listing' = listing
      BY <1>0, <1>6 DEF ModuleChar
    <2>2. us_rhr' # NoChar
      BY <1>0, <1>6, CharTypes DEF ModuleChar
    <2>3. ToCome' \in Int /\ ToCome' <= ToCome
      BY <1>0, <2>1, <2>2 DEF ToCome
    <2>4. answering # NoReply /\ answering' = answering
      BY <1>6 DEF ModuleChar, LineInv
    <2>5. /\ input_pos_wifi' = input_pos_wifi /\ input_line_wifi' = input_line_wifi
          /\ comm_edge' = comm_edge
      BY <1>6 DEF ModuleChar
    <2>6. /\ comm_edge = NoReply => input_pos_wifi + ToCome <= LongestReply + 1
          /\ ToCome <= LongestReply + 1
      BY DEF LineInv
    <2>7. /\ comm_edge = NoReply => input_pos_wifi + ToCome' <= LongestReply + 1
          /\ ToCome' <= LongestReply + 1
      <3>1. \A a, b, c, d \in Int : a <= b /\ c + b <= d => c + a <= d
        OBVIOUS
      <3>2. \A a, b, d \in Int : a <= b /\ b <= d => a <= d
        OBVIOUS
      <3>3. /\ ToCome \in Int /\ ToCome' \in Int /\ input_pos_wifi \in Int
            /\ LongestReply + 1 \in Int
        BY <1>0, <2>3
      <3> QED
        BY <2>3, <2>6, <3>1, <3>2, <3>3
    <2> QED
      BY <2>4, <2>5, <2>7 DEF LineInv, LongestReply
  <1>7. CASE ModuleEdge
    <2>1. ToCome' = ToCome /\ comm_edge' # NoReply
      BY <1>7 DEF ModuleEdge, ToCome
    <2> QED
      BY <1>7, <2>1 DEF ModuleEdge, LineInv, LongestReply
  <1>8. ASSUME NEW kind \in Kinds, NEW size \in 0 .. MaxImage, Call(kind, size)
        PROVE  LineInv'
    BY <1>8, LineFrame DEF Call
  <1>9. CASE ClearComplete \/ SendLine \/ WaitReturn
    BY <1>9, LineFrame DEF ClearComplete, SendLine, WaitReturn
  <1>10. CASE PutChar \/ StreamReturn \/ Tick
    BY <1>10, LineFrame DEF PutChar, StreamReturn, Tick
  <1>11. CASE ModuleIgnore \/ ModuleHold \/ ModuleReady
    BY <1>11, LineFrame DEF ModuleIgnore, ModuleHold, ModuleReady
  <1>12. CASE UNCHANGED vars
    BY <1>12, LineFrame DEF vars
  <1> QED
    BY <1>1, <1>2, <1>3, <1>4, <1>5, <1>6, <1>7, <1>8, <1>9, <1>10, <1>11,
       <1>12 DEF Next, Program, Interrupts, Module

\* The cursor never leaves the buffer and the text in it is always terminated,
\* whatever the module may do besides answering in time.
THEOREM LineTerminatedHolds == Spec => []LineTerminated
  <1>1. Init => TypeOK /\ LineInv
    BY InitType, LineInit
  <1>2. TypeOK /\ LineInv /\ [Next]_vars => (TypeOK /\ LineInv)'
    BY StepType, LineStep
  <1>3. TypeOK /\ LineInv => LineTerminated
    <2>1. LongestReply + 1 < MAX_INPUT_WIFI /\ LongestReply \in Nat
      BY LineAssumption, ListingSize DEF LongestReply
    <2> QED
      BY <2>1, LineAssumption DEF TypeOK, LineInv, LineTerminated
  <1> QED
    BY <1>1, <1>2, <1>3, PTL DEF Spec

-----------------------------------------------------------------------------
(* The content of the line.  For a module that answers in time and only    *)
(* when asked, the text of an answer is complete in the line when the      *)
(* handler of its edge looks for it, and nothing of an older one is.       *)

LEMMA PromptFacts ==
    Prompt => OnTime /\ "report" \notin ModuleMay /\ "overrun" \notin ModuleMay
  BY DEF Prompt, OnTime

\* The character that the handler stores is the last one of the line, and the
\* line keeps the ones it had.
LEMMA Stored ==
    ASSUME TypeOK, LineInv, RxISR
    PROVE  /\ input_pos_wifi \in Cells /\ input_pos_wifi' = input_pos_wifi + 1
           /\ us_rhr \in Char /\ us_rhr' = NoChar
           /\ input_line_wifi'[input_pos_wifi] = us_rhr
           /\ \A i \in Cells : i # input_pos_wifi => input_line_wifi'[i] = input_line_wifi[i]
           /\ \A i \in Cells : input_line_wifi[i] # NUL <=> i < input_pos_wifi
           /\ \A i \in Cells : input_line_wifi[i] \in Char \cup {NUL}
           /\ UNCHANGED <<reply, listing, answering, comm_edge>>
  <1>1. LongestReply \in Nat /\ LongestReply + 1 < MAX_INPUT_WIFI
        /\ MAX_INPUT_WIFI \in Nat
    BY LineAssumption, ListingSize DEF LongestReply
  <1>2. LineInv'
    BY LineStep DEF Next, Interrupts
  <1>3. input_pos_wifi' = input_pos_wifi + 1 /\ input_pos_wifi \in Nat
    BY DEF RxISR, TypeOK
  <1>a. LongestReply' = LongestReply
    BY DEF LongestReply
  <1>b. input_pos_wifi' <= LongestReply + 1
    BY <1>2, <1>a DEF LineInv
  <1>4. input_pos_wifi \in Cells
    BY <1>1, <1>3, <1>b DEF Cells
  <1>5. us_rhr \in Char /\ us_rhr' = NoChar
    BY DEF RxISR, TypeOK
  <1>6. /\ input_line_wifi' = [input_line_wifi EXCEPT ![input_pos_wifi] = us_rhr]
        /\ input_line_wifi \in [Cells -> Char \cup {NUL}]
    BY DEF RxISR, TypeOK
  <1>7. /\ input_line_wifi'[input_pos_wifi] = us_rhr
        /\ \A i \in Cells : i # input_pos_wifi => input_line_wifi'[i] = input_line_wifi[i]
    BY <1>4, <1>6
  <1>8. \A i \in Cells : input_line_wifi[i] # NUL <=> i < input_pos_wifi
    <2>1. \A i \in Cells : i \in Int
      BY DEF Cells
    <2> QED
      BY <1>3, <2>1 DEF LineInv
  <1>9. UNCHANGED <<reply, listing, answering, comm_edge>>
    BY DEF RxISR, moduleVars
  <1> QED
    BY <1>3, <1>4, <1>5, <1>6, <1>7, <1>8, <1>9

\* A text that is in the line stays there until the line is cleared.
LEMMA OccursStays ==
    ASSUME TypeOK, LineInv, RxISR,
           NEW CONSTANT text, text[1] \in Char, text[2] \in Char,
           Occurs(text, input_line_wifi)
    PROVE  Occurs(text, input_line_wifi')
  <1>1. PICK i \in Cells : /\ i + 1 \in Cells
                           /\ \A j \in 0 .. i : input_line_wifi[j] # NUL
                           /\ input_line_wifi[i] = text[1]
                           /\ input_line_wifi[i + 1] = text[2]
    BY DEF Occurs
  <1>2. i + 1 < input_pos_wifi
    BY <1>1, Stored, CharTypes
  <1>3. i \in Nat /\ input_pos_wifi \in Nat /\ MAX_INPUT_WIFI \in Nat
    BY Stored, LineAssumption DEF Cells
  <1>4. \A j \in 0 .. i + 1 : j \in Cells /\ j # input_pos_wifi
    BY <1>1, <1>2, <1>3 DEF Cells
  <1>5. \A j \in 0 .. i + 1 : input_line_wifi'[j] = input_line_wifi[j]
    BY <1>4, Stored
  <1>6. \A j \in 0 .. i : j \in 0 .. i + 1
    BY <1>3
  <1>7. i \in 0 .. i + 1 /\ i + 1 \in 0 .. i + 1
    BY <1>3
  <1> QED
    BY <1>1, <1>5, <1>6, <1>7 DEF Occurs

\* The second piece of a text is stored behind the first.
LEMMA OccursNow ==
    ASSUME TypeOK, LineInv, RxISR,
           NEW CONSTANT text, text[1] \in Char, text[2] \in Char,
           Received(text[1]), us_rhr = text[2]
    PROVE  Occurs(text, input_line_wifi')
  <1> DEFINE i == input_pos_wifi - 1
  <1>1. input_pos_wifi > 0 /\ input_line_wifi[i] = text[1]
    BY DEF Received
  <1>2. input_pos_wifi \in Nat /\ i \in Cells /\ i + 1 \in Cells
        /\ i + 1 = input_pos_wifi /\ i # input_pos_wifi
    BY <1>1, Stored, LineAssumption DEF Cells
  <1>3. input_line_wifi'[i] = text[1] /\ input_line_wifi'[i + 1] = text[2]
    BY <1>1, <1>2, Stored
  <1>4. \A j \in 0 .. i : j \in Cells /\ j < input_pos_wifi /\ j # input_pos_wifi
    BY <1>2, LineAssumption DEF Cells
  <1>5. \A j \in 0 .. i : input_line_wifi'[j] # NUL
    BY <1>4, Stored
  <1> QED
    BY <1>2, <1>3, <1>5 DEF Occurs

\* As long as the line is not cleared, a text that is arriving goes on to.
LEMMA ArrivingStays ==
    ASSUME TypeOK, LineInv, Prompt,
           NEW CONSTANT text, text[1] \in Char, text[2] \in Char,
           Arriving(text),
           \/ UNCHANGED <<input_line_wifi, input_pos_wifi, us_rhr, reply, listing>>
           \/ RxISR \/ ModuleList \/ ModuleChar \/ ModuleEdge
    PROVE  Arriving(text)'
  <1>0. reply \in Seq(Char) /\ Len(reply) \in Nat /\ us_rhr \in Char \cup {NoChar}
    BY DEF TypeOK
  <1>1. CASE UNCHANGED <<input_line_wifi, input_pos_wifi, us_rhr, reply, listing>>
    BY <1>1 DEF Arriving, ToSend, Received
  <1>2. CASE RxISR
    <2>1. ToSend(0)' <=> ToSend(0)
      BY <1>2, Stored DEF ToSend
    <2>2. ToSend(1)' <=> ToSend(1)
      BY <1>2, Stored DEF ToSend
    <2>3. ToSend(2)' <=> ToSend(2)
      BY <1>2, Stored DEF ToSend
    <2>4. us_rhr # NoChar /\ us_rhr' = NoChar /\ reply' = reply
      BY <1>2, Stored DEF RxISR
    <2>5. CASE us_rhr = text[1]
      <3>1. /\ input_pos_wifi' - 1 = input_pos_wifi /\ input_pos_wifi' > 0
            /\ input_line_wifi'[input_pos_wifi] = us_rhr
        BY <1>2, Stored DEF Cells
      <3>2. Received(text[1])'
        BY <2>5, <3>1 DEF Received
      <3>3. CASE us_rhr = text[2] /\ Received(text[1])
        BY <1>2, <3>3, OccursNow DEF Arriving
      <3>4. CASE Occurs(text, input_line_wifi)
        BY <1>2, <3>4, OccursStays DEF Arriving
      <3> QED
        BY <2>1, <2>2, <2>3, <2>4, <3>2, <3>3, <3>4 DEF Arriving
    <2>6. CASE us_rhr = text[2] /\ Received(text[1])
      BY <1>2, <2>6, OccursNow DEF Arriving
    <2>7. CASE Occurs(text, input_line_wifi)
      BY <1>2, <2>7, OccursStays DEF Arriving
    <2>8. CASE ToSend(2) /\ reply[1] = text[1] /\ reply[2] = text[2]
      BY <2>3, <2>4, <2>8 DEF Arriving
    <2> QED
      BY <2>4, <2>5, <2>6, <2>7, <2>8 DEF Arriving
  <1>3. CASE ModuleList
    <2>1. reply = <<>> /\ UNCHANGED <<input_line_wifi, input_pos_wifi, us_rhr>>
      BY <1>3 DEF ModuleList, lineVars
    <2>2. ToSend(0)'
      <3>1. PICK s \in listing :
              /\ listing' = listing \ {s}
              /\ reply' = StreamText(s) \o (IF listing' = {} THEN <<EOL>> ELSE <<>>)
        BY <1>3 DEF ModuleList
      <3>2. Len(reply') >= 2
        BY <3>1, TextTypes DEF TypeOK
      <3> QED
        BY <3>2 DEF ToSend
    <2>3. ~ToSend(1) /\ ~ToSend(2)
      BY <2>1 DEF ToSend
    <2> QED
      BY <2>1, <2>2, <2>3 DEF Arriving, Received
  <1>4. CASE ModuleChar
    <2>1. /\ us_rhr = NoChar /\ us_rhr' = reply[1]
          /\ UNCHANGED <<input_line_wifi, input_pos_wifi, listing>>
      BY <1>0, <1>4, PromptFacts DEF ModuleChar, lineVars
    <2>2. Len(reply') = Len(reply) - 1
      BY <1>0, <1>4 DEF ModuleChar
    <2>3. \A k \in 1 .. Len(reply) - 1 : reply'[k] = reply[k + 1]
      BY <1>0, <1>4 DEF ModuleChar
    <2>4. (ToSend(2) => ToSend(1)') /\ (ToSend(1) => ToSend(0)')
      BY <1>0, <2>1, <2>2 DEF ToSend
    <2>5. CASE ToSend(2) /\ reply[1] = text[1] /\ reply[2] = text[2]
      <3>1. reply'[1] = reply[2]
        BY <1>0, <2>3, <2>5 DEF ToSend
      <3> QED
        BY <2>1, <2>4, <2>5, <3>1 DEF Arriving
    <2>6. CASE ToSend(1) /\ reply[1] = text[2] /\ Received(text[1])
      BY <2>1, <2>4, <2>6 DEF Arriving, Received
    <2>7. CASE Occurs(text, input_line_wifi)
      BY <2>1, <2>7 DEF Arriving
    <2>8. us_rhr # text[1] /\ us_rhr # text[2]
      BY <2>1, CharTypes
    <2> QED
      BY <2>5, <2>6, <2>7, <2>8 DEF Arriving
  <1>5. CASE ModuleEdge
    <2>1. reply = <<>> /\ listing = {}
      BY <1>5 DEF ModuleEdge
    <2>2. ~ToSend(0) /\ ~ToSend(1) /\ ~ToSend(2)
      BY <2>1 DEF ToSend
    <2>3. input_line_wifi' = input_line_wifi
      BY <1>5 DEF ModuleEdge, lineVars
    <2> QED
      BY <2>2, <2>3 DEF Arriving
  <1> QED
    BY <1>1, <1>2, <1>3, <1>4, <1>5

\* When the handler of an edge runs, a text that was arriving is there.
LEMMA Arrived ==
    ASSUME LineInv, answering = NoReply,
           NEW CONSTANT text, Arriving(text)
    PROVE  Occurs(text, input_line_wifi)
  <1>1. reply = <<>> /\ listing = {}
    BY DEF LineInv
  <1>2. ~ToSend(0) /\ ~ToSend(1) /\ ~ToSend(2)
    BY <1>1 DEF ToSend
  <1> QED
    BY <1>2 DEF Arriving

\* The command that the module answers is the one that waits.
LEMMA Oldest ==
    ASSUME TypeOK, AckInv, CommandInv, inbox # <<>>
    PROVE  /\ pc = "wait" /\ cmd.id # CompleteReport /\ expecting = 0
           /\ answering = NoReply /\ comm_edge = NoReply /\ cmd.id # NoReply
           /\ Head(inbox) = cmd /\ Tail(inbox) = <<>> /\ reported.id # cmd.id
  <1>1. inbox \in Seq(Command) /\ Len(inbox) <= 1
    BY DEF TypeOK, AckInv
  <1>a. inbox[1] = cmd
    BY DEF CommandInv
  <1>2. Head(inbox) = cmd /\ Tail(inbox) = <<>>
    <2>1. \A s \in Seq(Command) : s # <<>> /\ Len(s) <= 1 =>
            Head(s) = s[1] /\ Tail(s) = <<>>
      OBVIOUS
    <2> QED
      BY <1>1, <1>a, <2>1
  <1>3. pc = "wait" /\ answering = NoReply /\ comm_edge = NoReply
    BY DEF AckInv, NoneUnderWay
  <1>4. cmd.id # CompleteReport /\ expecting = 0 /\ reported.id # cmd.id
    BY <1>3 DEF CommandInv
  <1>5. cmd.id # NoReply
    BY BoundAssumption DEF TypeOK, Command, NoReply
  <1> QED
    BY <1>2, <1>3, <1>4, <1>5

LEMMA Answered ==
    ASSUME TypeOK, AckInv, CommandInv, ModuleAnswer
    PROVE  /\ inbox' = <<>> /\ answering' = cmd.id
           /\ \/ /\ cmd.kind = "poll_all" /\ expecting' = expecting
                 /\ reported'.id = cmd.id /\ reported'.open = listing'
                 /\ listing' \subseteq Streams
                 /\ reply' = IF listing' = {} THEN NoneText \o <<EOL>> ELSE <<>>
              \/ /\ cmd.kind = "image_transfer" /\ expecting' = cmd.size
                 /\ reported' = reported /\ listing' = listing
                 /\ reply' = StartText \o <<EOL>>
              \/ /\ cmd.kind \notin {"poll_all", "image_transfer"}
                 /\ expecting' = expecting
                 /\ reported' = reported /\ listing' = listing
                 /\ reply' = OkText \o <<EOL>>
  <1>1. inbox # <<>>
    BY DEF ModuleAnswer
  <1>2. Head(inbox) = cmd /\ Tail(inbox) = <<>> /\ cmd.id # CompleteReport
    BY <1>1, Oldest
  <1>3. inbox' = <<>> /\ answering' = cmd.id
    BY <1>2 DEF ModuleAnswer
  <1>4. CASE cmd.kind = "poll_all"
    <2>1. PICK open \in SUBSET Streams :
            /\ listing' = open
            /\ reply' = IF open = {} THEN NoneText \o <<EOL>> ELSE <<>>
            /\ reported' = [id |-> cmd.id, open |-> open]
            /\ UNCHANGED expecting
      BY <1>2, <1>4 DEF ModuleAnswer
    <2> QED
      BY <1>3, <1>4, <2>1
  <1>5. CASE cmd.kind = "image_transfer"
    BY <1>2, <1>3, <1>5 DEF ModuleAnswer
  <1>6. CASE cmd.kind \notin {"poll_all", "image_transfer"}
    BY <1>2, <1>3, <1>6 DEF ModuleAnswer
  <1> QED
    BY <1>4, <1>5, <1>6

\* No reply holds the pattern with three m's, nor a stream unless it lists it.
LEMMA RejectNeverMatches ==
    /\ \A s \in Streams : s # "commmand"
    /\ ",0" # "commmand" /\ EOL # "commmand" /\ NUL # "commmand" /\ NoChar # "commmand"
    /\ \A s \in Streams : s \notin Pieces /\ s # NUL /\ s # NoChar /\ s # EOL
  <1>1. \A s \in Streams : s \notin Pieces /\ s # NUL /\ s # NoChar
    BY StreamsAssumption
  <1>2. "commmand" \in Pieces /\ EOL \in Pieces
    BY DEF Pieces
  <1>3. ",0" # "commmand" /\ EOL # "commmand" /\ NUL # "commmand" /\ NoChar # "commmand"
    BY DEF EOL, NUL, NoChar
  <1> QED
    BY <1>1, <1>2, <1>3

\* A character that is neither in the line nor coming does not appear in it.
LEMMA FreeStays ==
    ASSUME TypeOK, LineInv, NEW CONSTANT C, NUL \notin C, NoChar \notin C, Free(C),
           \/ UNCHANGED <<input_line_wifi, us_rhr, reply>>
           \/ RxISR \/ ModuleChar \/ CommISR
    PROVE  Free(C)'
  <1>0. reply \in Seq(Char)
    BY DEF TypeOK
  <1>1. CASE UNCHANGED <<input_line_wifi, us_rhr, reply>>
    BY <1>1 DEF Free
  <1>2. CASE RxISR
    <2>1. \A i \in Cells : input_line_wifi'[i] \notin C
      BY <1>2, Stored DEF Free
    <2> QED
      BY <1>2, <2>1, Stored DEF Free
  <1>3. CASE ModuleChar
    <2>1. us_rhr' = reply[1] /\ 1 \in 1 .. Len(reply)
      BY <1>0, <1>3 DEF ModuleChar
    <2>2. \A k \in 1 .. Len(reply') : k + 1 \in 1 .. Len(reply)
                                      /\ reply'[k] = reply[k + 1]
      BY <1>0, <1>3 DEF ModuleChar
    <2>3. input_line_wifi' = input_line_wifi
      BY <1>3 DEF ModuleChar, lineVars
    <2> QED
      BY <2>1, <2>2, <2>3 DEF Free
  <1>4. CASE CommISR
    <2>1. \A i \in Cells : input_line_wifi'[i] = NUL
      BY <1>4 DEF CommISR, ClearedLine, EmptyLine
    <2>2. us_rhr' = us_rhr /\ reply' = reply
      BY <1>4 DEF CommISR, moduleVars
    <2> QED
      BY <2>1, <2>2 DEF Free
  <1> QED
    BY <1>1, <1>2, <1>3, <1>4

\* A new reply in its place.
LEMMA FreeOfReply ==
    ASSUME NEW CONSTANT C, Free(C), UNCHANGED <<input_line_wifi, us_rhr>>,
           \/ reply' = <<>>
           \/ \E a, b, c : Consists(reply', a, b, c) /\ {a, b, c} \cap C = {}
           \/ \E a, b : ConsistsOfTwo(reply', a, b) /\ {a, b} \cap C = {}
    PROVE  Free(C)'
  <1>1. \A k \in 1 .. Len(reply') : reply'[k] \notin C
    <2>1. CASE reply' = <<>>
      BY <2>1
    <2>2. CASE \E a, b, c : Consists(reply', a, b, c) /\ {a, b, c} \cap C = {}
      <3>1. PICK a, b, c : Consists(reply', a, b, c) /\ {a, b, c} \cap C = {}
        BY <2>2
      <3>2. Len(reply') = 3 /\ reply'[1] = a /\ reply'[2] = b /\ reply'[3] = c
        BY <3>1 DEF Consists
      <3>3. \A k \in 1 .. 3 : k = 1 \/ k = 2 \/ k = 3
        OBVIOUS
      <3> QED
        BY <3>1, <3>2, <3>3
    <2>3. CASE \E a, b : ConsistsOfTwo(reply', a, b) /\ {a, b} \cap C = {}
      <3>1. PICK a, b : ConsistsOfTwo(reply', a, b) /\ {a, b} \cap C = {}
        BY <2>3
      <3>2. Len(reply') = 2 /\ reply'[1] = a /\ reply'[2] = b
        BY <3>1 DEF ConsistsOfTwo
      <3>3. \A k \in 1 .. 2 : k = 1 \/ k = 2
        OBVIOUS
      <3> QED
        BY <3>1, <3>2, <3>3
    <2> QED
      BY <2>1, <2>2, <2>3
  <1> QED
    BY <1>1 DEF Free

\* The other steps leave the line, the reply and the edge alone.
LEMMA QuietSteps ==
    ASSUME [Next]_vars
    PROVE  \/ RxISR \/ CommISR \/ ModuleAnswer \/ ModuleRefuse
           \/ ModuleList \/ ModuleChar \/ ModuleEdge
           \/ UNCHANGED <<input_line_wifi, input_pos_wifi, us_rhr, reply, listing,
                          answering, comm_edge>>
  <1> USE DEF lineVars, moduleVars
  <1>1. ASSUME NEW kind \in Kinds, NEW size \in 0 .. MaxImage, Call(kind, size)
        PROVE  UNCHANGED <<input_line_wifi, input_pos_wifi, us_rhr, reply, listing,
                           answering, comm_edge>>
    BY <1>1 DEF Call
  <1>2. ClearComplete \/ SendLine \/ WaitReturn =>
          UNCHANGED <<input_line_wifi, input_pos_wifi, us_rhr, reply, listing,
                      answering, comm_edge>>
    BY DEF ClearComplete, SendLine, WaitReturn
  <1>3. PutChar \/ StreamReturn \/ Tick =>
          UNCHANGED <<input_line_wifi, input_pos_wifi, us_rhr, reply, listing,
                      answering, comm_edge>>
    BY DEF PutChar, StreamReturn, Tick
  <1>4. ModuleIgnore \/ ModuleHold \/ ModuleReady \/ UNCHANGED vars =>
          UNCHANGED <<input_line_wifi, input_pos_wifi, us_rhr, reply, listing,
                      answering, comm_edge>>
    BY DEF ModuleIgnore, ModuleHold, ModuleReady, vars
  <1> QED
    BY <1>1, <1>2, <1>3, <1>4 DEF Next, Program, Interrupts, Module

LEMMA TextStep ==
    Prompt /\ TypeOK /\ AckInv /\ LineInv /\ CommandInv /\ TextInv /\ [Next]_vars
      => TextInv'
  <1> SUFFICES ASSUME Prompt, TypeOK, AckInv, LineInv, CommandInv, TextInv, [Next]_vars
               PROVE  TextInv'
    OBVIOUS
  <1>0. reply \in Seq(Char) /\ Free({"commmand"})
    BY DEF TypeOK, TextInv
  <1>a. NUL \notin {"commmand"} /\ NoChar \notin {"commmand"}
    BY RejectNeverMatches
  <1>b. ASSUME answering' # NoReply, Free({"commmand"})',
               listing' = {} => \E a, b : Consists(reply', a, b, EOL)
        PROVE  TextInv'
    <2>1. ASSUME listing' = {} PROVE reply' # <<>> /\ reply'[Len(reply')] = EOL
      <3>1. PICK a, b : Consists(reply', a, b, EOL)
        BY <1>b, <2>1
      <3>2. Len(reply') = 3 /\ reply'[3] = EOL
        BY <3>1 DEF Consists
      <3>3. reply' # <<>>
        BY <3>2
      <3> QED
        BY <3>2, <3>3, Zenon
    <2> QED
      BY <1>b, <2>1 DEF TextInv, UnderWay
  <1>1. CASE RxISR
    <2>1. Free({"commmand"})'
      BY <1>0, <1>1, <1>a, FreeStays
    <2>2. us_rhr' = NoChar /\ reply' = reply /\ listing' = listing
          /\ answering' = answering /\ comm_edge' = comm_edge
      BY <1>1, Stored
    <2>3. ASSUME ~UnderWay PROVE \A i \in Cells : input_line_wifi'[i] \in {NUL, EOL}
      <3>1. reply = <<>> /\ listing = {}
        BY <2>3 DEF UnderWay, LineInv
      <3>2. us_rhr = EOL
        BY <1>1, <3>1 DEF RxISR, TextInv
      <3>3. \A i \in Cells : input_line_wifi[i] \in {NUL, EOL}
        BY <2>3 DEF TextInv
      <3> QED
        BY <1>1, <3>2, <3>3, Stored
    <2> QED
      BY <2>1, <2>2, <2>3 DEF TextInv, UnderWay
  <1>2. CASE CommISR
    <2>1. Free({"commmand"})'
      BY <1>0, <1>2, <1>a, FreeStays
    <2>2. \A i \in Cells : input_line_wifi'[i] = NUL
      BY <1>2 DEF CommISR, ClearedLine, EmptyLine
    <2>3. us_rhr' = us_rhr /\ reply' = reply /\ listing' = listing
      BY <1>2 DEF CommISR, moduleVars
    <2> QED
      BY <2>1, <2>2, <2>3 DEF TextInv
  <1>3. CASE ModuleAnswer
    <2>1. answering' # NoReply
      BY <1>3, Oldest, Answered DEF ModuleAnswer
    <2>2. listing = {} /\ UNCHANGED <<input_line_wifi, us_rhr>>
      BY <1>3 DEF ModuleAnswer, LineInv, lineVars
    <2>3. \/ reply' = NoneText \o <<EOL>> \/ reply' = StartText \o <<EOL>>
          \/ reply' = OkText \o <<EOL>>
          \/ reply' = <<>> /\ listing' # {}
      BY <1>3, Answered
    <2>4. \/ Consists(reply', "No", "ne", EOL)
          \/ Consists(reply', "Start ", "transfer", EOL)
          \/ Consists(reply', "o", "k", EOL)
          \/ reply' = <<>> /\ listing' # {}
      BY <2>3, TextPieces, Zenon
    <2>5. /\ {"No", "ne", EOL} \cap {"commmand"} = {}
          /\ {"Start ", "transfer", EOL} \cap {"commmand"} = {}
          /\ {"o", "k", EOL} \cap {"commmand"} = {}
      BY DEF EOL
    <2>6. \/ reply' = <<>>
          \/ \E a, b, c : Consists(reply', a, b, c) /\ {a, b, c} \cap {"commmand"} = {}
      BY <2>4, <2>5, Zenon
    <2>7. Free({"commmand"})'
      BY <1>0, <2>2, <2>6, FreeOfReply
    <2>8. listing' = {} => \E a, b : Consists(reply', a, b, EOL)
      BY <2>4, Zenon
    <2> QED
      BY <1>b, <2>1, <2>7, <2>8
  <1>4. CASE ModuleRefuse
    <2>1. answering' # NoReply
      BY <1>4, Oldest DEF ModuleRefuse
    <2>2. UNCHANGED <<input_line_wifi, us_rhr>>
      BY <1>4 DEF ModuleRefuse, lineVars
    <2>3. Consists(reply', "Unknown ", "command", EOL)
      BY <1>4, TextPieces DEF ModuleRefuse
    <2>4. {"Unknown ", "command", EOL} \cap {"commmand"} = {}
      BY DEF EOL
    <2>5. \E a, b, c : Consists(reply', a, b, c) /\ {a, b, c} \cap {"commmand"} = {}
      BY <2>3, <2>4, Zenon
    <2>6. Free({"commmand"})'
      BY <1>0, <2>2, <2>5, FreeOfReply
    <2>7. \E a, b : Consists(reply', a, b, EOL)
      BY <2>3, Zenon
    <2> QED
      BY <1>b, <2>1, <2>6, <2>7
  <1>5. CASE ModuleList
    <2>1. PICK s \in listing :
            /\ listing' = listing \ {s}
            /\ reply' = StreamText(s) \o (IF listing' = {} THEN <<EOL>> ELSE <<>>)
      BY <1>5 DEF ModuleList
    <2>2. s \in Streams
      BY <2>1 DEF TypeOK
    <2>3. answering' # NoReply
      BY <1>5, <2>1 DEF ModuleList, LineInv
    <2>4. UNCHANGED <<input_line_wifi, us_rhr>>
      BY <1>5 DEF ModuleList, lineVars
    <2>5. IF listing' = {} THEN Consists(reply', s, ",0", EOL)
                           ELSE ConsistsOfTwo(reply', s, ",0")
      BY <2>1, <2>2, TextPieces, Zenon
    <2>6. {s, ",0", EOL} \cap {"commmand"} = {} /\ {s, ",0"} \cap {"commmand"} = {}
      BY <2>2, RejectNeverMatches
    <2>7. \/ \E a, b, c : Consists(reply', a, b, c) /\ {a, b, c} \cap {"commmand"} = {}
          \/ \E a, b : ConsistsOfTwo(reply', a, b) /\ {a, b} \cap {"commmand"} = {}
      BY <2>5, <2>6, Zenon
    <2>8. Free({"commmand"})'
      BY <1>0, <2>4, <2>7, FreeOfReply
    <2>9. listing' = {} => \E a, b : Consists(reply', a, b, EOL)
      BY <2>5, Zenon
    <2> QED
      BY <1>b, <2>3, <2>8, <2>9
  <1>6. CASE ModuleChar
    <2>1. Free({"commmand"})'
      BY <1>0, <1>6, <1>a, FreeStays
    <2>2. reply # <<>> /\ us_rhr' = reply[1] /\ listing' = listing
          /\ answering' = answering /\ comm_edge' = comm_edge
          /\ input_line_wifi' = input_line_wifi
      BY <1>0, <1>6 DEF ModuleChar, lineVars
    <2>3. Len(reply) \in Nat /\ Len(reply) >= 1 /\ Len(reply') = Len(reply) - 1
          /\ \A k \in 1 .. Len(reply) - 1 : reply'[k] = reply[k + 1]
      BY <1>0, <1>6 DEF ModuleChar
    <2>4. reply' = <<>> => Len(reply) = 1
      BY <2>3
    <2>5. reply' # <<>> => Len(reply) > 1
      BY <1>0, <1>6, <2>3 DEF ModuleChar
    <2>6. reply' # <<>> => reply'[Len(reply')] = reply[Len(reply)]
      BY <2>3, <2>5
    <2>7. listing = {} => reply[Len(reply)] = EOL
      BY <2>2 DEF TextInv
    <2>8. listing' = {} => IF reply' = <<>> THEN us_rhr' \in {NoChar, EOL}
                           ELSE reply'[Len(reply')] = EOL
      BY <2>2, <2>4, <2>6, <2>7
    <2> QED
      BY <2>1, <2>2, <2>8 DEF TextInv, UnderWay
  <1>7. CASE ModuleEdge
    <2>1. UnderWay' /\ UNCHANGED <<input_line_wifi, us_rhr, reply, listing>>
      BY <1>7 DEF ModuleEdge, UnderWay, lineVars
    <2>2. Free({"commmand"})'
      BY <1>0, <2>1 DEF Free
    <2> QED
      BY <2>1, <2>2 DEF TextInv
  <1>8. CASE UNCHANGED <<input_line_wifi, input_pos_wifi, us_rhr, reply, listing,
                         answering, comm_edge>>
    BY <1>8 DEF TextInv, UnderWay, Free
  <1> QED
    BY <1>1, <1>2, <1>3, <1>4, <1>5, <1>6, <1>7, <1>8, QuietSteps

\* No data is expected of a program that does not wait and does not stream.
LEMMA ExpectsNone ==
    ASSUME TypeOK, DataInv, pc \in {"idle", "clear", "send"}
    PROVE  expecting = 0
  BY BoundAssumption DEF TypeOK, DataInv

LEMMA CommandStep ==
    Prompt /\ TypeOK /\ AckInv /\ CommandInv /\ DataInv /\ [Next]_vars => CommandInv'
  <1> SUFFICES ASSUME Prompt, TypeOK, AckInv, CommandInv, DataInv, [Next]_vars
               PROVE  CommandInv'
    OBVIOUS
  <1> USE DEF mainVars, moduleVars
  <1>0. /\ cmd.id \in Nat /\ reported.id \in Nat /\ sent \in Nat
        /\ inbox \in Seq(Command) /\ expecting \in Nat
    BY BoundAssumption DEF TypeOK, Command
  <1>a. pc # "wait" => inbox = <<>>
    BY DEF AckInv, NoneUnderWay
  <1>b. TakeData => inbox' = inbox
    BY PromptFacts, TakeDataKeepsInbox
  <1>1. ASSUME NEW kind \in Kinds, NEW size \in 0 .. MaxImage, Call(kind, size)
        PROVE  CommandInv'
    <2>1. cmd'.id = cmd.id + 1 /\ inbox' = <<>> /\ reported' = reported /\ sent' = 0
      BY <1>1, <1>a DEF Call, CommandInv
    <2> QED
      BY <1>0, <1>1, <2>1 DEF Call, CommandInv, CompleteReport
  <1>2. CASE ClearComplete
    BY <1>2 DEF ClearComplete, CommandInv
  <1>3. CASE SendLine
    <2>1. expecting = 0 /\ inbox = <<>>
      BY <1>3, <1>a, ExpectsNone DEF SendLine
    <2>2. inbox' = <<cmd>> /\ expecting' = 0
      BY <1>0, <1>3, <2>1 DEF SendLine
    <2>3. inbox'[1] = cmd
      BY <2>2
    <2> QED
      BY <1>3, <2>2, <2>3 DEF SendLine, CommandInv
  <1>4. CASE WaitReturn
    <2>1. inbox = <<>>
      BY <1>4 DEF WaitReturn, AckInv, NoneUnderWay
    <2>2. pc' \in {"idle", "stream"}
      BY <1>4 DEF WaitReturn
    <2> QED
      BY <1>4, <2>1, <2>2 DEF WaitReturn, CommandInv
  <1>5. CASE PutChar
    <2>1. inbox' = <<>> /\ pc' = "stream" /\ pc = "stream"
      BY <1>5, <1>a, <1>b DEF PutChar
    <2>2. cmd' = cmd /\ reported' = reported
      BY <1>5 DEF PutChar
    <2> QED
      BY <2>1, <2>2 DEF CommandInv
  <1>6. CASE StreamReturn
    BY <1>6, <1>a DEF StreamReturn, CommandInv
  <1>7. CASE Tick \/ RxISR
    BY <1>7 DEF Tick, RxISR, CommandInv
  <1>8. CASE CommISR
    BY <1>8 DEF CommISR, CommandInv
  <1>9. CASE ModuleAnswer
    <2>1. pc = "wait" /\ UNCHANGED <<pc, cmd, sent>>
      BY <1>9, Oldest DEF ModuleAnswer
    <2>2. inbox' = <<>> /\ reported'.id <= cmd.id
      BY <1>0, <1>9, Answered DEF CommandInv
    <2> QED
      BY <2>1, <2>2 DEF CommandInv
  <1>10. CASE ModuleRefuse
    <2>1. inbox' = <<>> /\ UNCHANGED <<pc, cmd, sent, reported>>
      BY <1>10, Oldest DEF ModuleRefuse
    <2> QED
      BY <2>1 DEF CommandInv
  <1>11. CASE ModuleIgnore
    <2>1. inbox' = <<>> /\ UNCHANGED <<pc, cmd, sent, reported>>
      BY <1>11, Oldest DEF ModuleIgnore
    <2> QED
      BY <2>1 DEF CommandInv
  <1>12. CASE ModuleList \/ ModuleChar \/ ModuleEdge
    BY <1>12 DEF ModuleList, ModuleChar, ModuleEdge, CommandInv
  <1>13. CASE ModuleHold \/ ModuleReady
    BY <1>13 DEF ModuleHold, ModuleReady, CommandInv
  <1>14. CASE UNCHANGED vars
    BY <1>14 DEF vars, CommandInv
  <1> QED
    BY <1>1, <1>2, <1>3, <1>4, <1>5, <1>6, <1>7, <1>8, <1>9, <1>10, <1>11,
       <1>12, <1>13, <1>14 DEF Next, Program, Interrupts, Module

LEMMA DataStep ==
    Prompt /\ TypeOK /\ LinkInv /\ [Next]_vars => DataInv'
  <1> SUFFICES ASSUME Prompt, TypeOK, LinkInv, [Next]_vars, expecting' > 0
               PROVE  DataInv'
    BY DEF DataInv
  <1> USE DEF mainVars, flagVars, lineVars, moduleVars
  <1>0. /\ expecting \in Nat /\ sent \in Nat /\ cmd.size \in Nat
        /\ AckInv /\ LineInv /\ TextInv /\ CommandInv /\ DataInv
    BY BoundAssumption DEF TypeOK, Command, LinkInv
  <1>t. StartText[1] \in Char /\ StartText[2] \in Char
    BY DEF StartText, Char, Pieces
  <1>f. ASSUME UNCHANGED <<pc, cmd, sent, expecting, image_transf_ready,
                           answering, comm_edge, listing>>,
               Arriving(StartText) => Arriving(StartText)'
        PROVE  DataInv'
    BY <1>0, <1>f DEF DataInv, UnderWay
  <1>q. ASSUME UNCHANGED <<pc, cmd, sent, expecting, image_transf_ready,
                           answering, comm_edge, listing, input_line_wifi,
                           input_pos_wifi, us_rhr, reply>>
        PROVE  DataInv'
    BY <1>q, <1>f DEF Arriving, ToSend, Received
  <1>1. ASSUME NEW kind \in Kinds, NEW size \in 0 .. MaxImage, Call(kind, size)
        PROVE  DataInv'
    BY <1>0, <1>1, ExpectsNone DEF Call
  <1>2. CASE ClearComplete
    BY <1>0, <1>2, ExpectsNone DEF ClearComplete
  <1>3. CASE SendLine
    BY <1>0, <1>3, ExpectsNone DEF SendLine
  <1>4. CASE WaitReturn
    <2>1. ~UnderWay
      BY <1>0, <1>4 DEF WaitReturn, AckInv, NoneUnderWay, UnderWay
    <2>2. pc = "wait" /\ sent = 0 /\ UNCHANGED <<cmd, sent, expecting>>
      BY <1>0, <1>4 DEF WaitReturn, CommandInv
    <2>3. cmd.kind = "image_transfer" /\ image_transf_ready /\ expecting = cmd.size
      BY <1>0, <2>1, <2>2 DEF DataInv
    <2>4. pc' = "stream"
      BY <1>4, <2>3 DEF WaitReturn
    <2> QED
      BY <1>0, <2>2, <2>3, <2>4 DEF DataInv
  <1>5. CASE PutChar
    <2>1. pc = "stream" /\ pc' = "stream" /\ cmd' = cmd /\ sent' = sent + 1
      BY <1>5 DEF PutChar
    <2>2. expecting > 0 /\ expecting' = expecting - 1
      BY <1>0, <1>5 DEF PutChar, TakeData
    <2>3. cmd.kind = "image_transfer" /\ expecting = cmd.size - sent
      BY <1>0, <2>1, <2>2 DEF DataInv
    <2> QED
      BY <1>0, <2>1, <2>2, <2>3 DEF DataInv
  <1>6. CASE StreamReturn
    <2>1. pc = "stream" /\ sent >= cmd.size /\ expecting' = expecting
      BY <1>6 DEF StreamReturn
    <2> QED
      BY <1>0, <2>1 DEF DataInv
  <1>7. CASE Tick
    BY <1>7, <1>q DEF Tick
  <1>8. CASE RxISR
    <2>1. Arriving(StartText) => Arriving(StartText)'
      BY <1>0, <1>8, <1>t, ArrivingStays
    <2> QED
      BY <1>8, <1>f, <2>1 DEF RxISR
  <1>9. CASE CommISR
    <2>1. /\ comm_edge # NoReply /\ answering = NoReply /\ answering' = answering
          /\ comm_edge' = NoReply /\ UNCHANGED <<pc, cmd, sent, expecting>>
      BY <1>0, <1>9 DEF CommISR, AckInv
    <2>2. pc = "wait" /\ cmd.kind = "image_transfer" /\ expecting = cmd.size
          /\ Arriving(StartText)
      <3>1. UnderWay /\ pc # "stream"
        BY <1>0, <2>1 DEF UnderWay, AckInv, NoneUnderWay
      <3> QED
        BY <1>0, <2>1, <3>1 DEF DataInv
    <2>3. Occurs(StartText, input_line_wifi)
      BY <1>0, <2>1, <2>2, Arrived
    <2>4. ~Occurs(UnknownText, input_line_wifi)
      BY <1>0 DEF Occurs, UnknownText, TextInv, Free
    <2>5. image_transf_ready'
      BY <1>9, <2>3, <2>4 DEF CommISR, ParseLine
    <2> QED
      BY <2>1, <2>2, <2>5 DEF DataInv, UnderWay
  <1>10. CASE ModuleAnswer
    <2>1. pc = "wait" /\ expecting = 0 /\ UNCHANGED <<pc, cmd>>
      BY <1>0, <1>10, Oldest DEF ModuleAnswer
    <2>2. cmd.kind = "image_transfer" /\ expecting' = cmd.size
          /\ listing' = listing /\ reply' = StartText \o <<EOL>>
      BY <1>0, <1>10, <2>1, Answered
    <2>3. listing = {} /\ answering' # NoReply
      BY <1>0, <1>10, Oldest, Answered DEF ModuleAnswer, LineInv
    <2>4. Len(reply') = 3 /\ reply'[1] = StartText[1] /\ reply'[2] = StartText[2]
      BY <2>2, TextPieces DEF Consists, StartText
    <2>5. Arriving(StartText)'
      BY <2>2, <2>3, <2>4 DEF Arriving, ToSend
    <2> QED
      BY <2>1, <2>2, <2>3, <2>5 DEF DataInv, UnderWay
  <1>11. CASE ModuleRefuse \/ ModuleIgnore
    BY <1>0, <1>11, Oldest DEF ModuleRefuse, ModuleIgnore
  <1>12. CASE ModuleList
    <2>1. UnderWay /\ listing # {} /\ expecting' = expecting
      BY <1>0, <1>12 DEF ModuleList, LineInv, UnderWay
    <2>2. pc = "wait"
      BY <1>0, <2>1 DEF UnderWay, AckInv, NoneUnderWay
    <2> QED
      BY <1>0, <2>1, <2>2 DEF DataInv
  <1>13. CASE ModuleChar
    <2>1. Arriving(StartText) => Arriving(StartText)'
      BY <1>0, <1>13, <1>t, ArrivingStays
    <2> QED
      BY <1>13, <1>f, <2>1 DEF ModuleChar
  <1>14. CASE ModuleEdge
    <2>1. Arriving(StartText) => Arriving(StartText)'
      BY <1>0, <1>14, <1>t, ArrivingStays
    <2>2. UnderWay /\ UNCHANGED <<pc, cmd, sent, expecting, listing>>
      BY <1>14 DEF ModuleEdge, UnderWay
    <2>3. UnderWay'
      <3>1. comm_edge' = answering /\ answering # NoReply
        BY <1>14 DEF ModuleEdge
      <3> QED
        BY <3>1 DEF UnderWay
    <2> QED
      BY <1>0, <2>1, <2>2, <2>3 DEF DataInv
  <1>15. CASE ModuleHold \/ ModuleReady
    BY <1>15, <1>q DEF ModuleHold, ModuleReady
  <1>16. CASE UNCHANGED vars
    BY <1>16, <1>q DEF vars
  <1> QED
    BY <1>1, <1>2, <1>3, <1>4, <1>5, <1>6, <1>7, <1>8, <1>9, <1>10, <1>11,
       <1>12, <1>13, <1>14, <1>15, <1>16 DEF Next, Program, Interrupts, Module

LEMMA PollTexts ==
    /\ NoneText[1] \in Char /\ NoneText[2] \in Char
    /\ \A s \in Streams : StreamText(s)[1] \in Char /\ StreamText(s)[2] \in Char
    /\ NUL \notin Streams /\ NoChar \notin Streams
    /\ {"No", "ne", EOL} \cap Streams = {}
  <1>1. NoneText[1] = "No" /\ NoneText[2] = "ne"
    BY DEF NoneText
  <1>2. \A s \in Streams : StreamText(s)[1] = s /\ StreamText(s)[2] = ",0"
    BY DEF StreamText
  <1>3. /\ "No" \in Pieces /\ "ne" \in Pieces /\ ",0" \in Pieces /\ EOL \in Pieces
        /\ Pieces \subseteq Char /\ Streams \subseteq Char
    BY DEF Pieces, Char
  <1> QED
    BY <1>1, <1>2, <1>3, StreamsAssumption

LEMMA PollStep ==
    Prompt /\ TypeOK /\ LinkInv /\ [Next]_vars => PollInv'
  <1> SUFFICES ASSUME Prompt, TypeOK, LinkInv, [Next]_vars,
                      pc' = "wait", reported'.id = cmd'.id
               PROVE  PollInv'
    BY DEF PollInv
  <1> USE DEF mainVars, flagVars, lineVars, moduleVars
  <1>0. AckInv /\ LineInv /\ TextInv /\ CommandInv /\ DataInv /\ PollInv
    BY DEF LinkInv
  <1>u. UnderWay => lastEdge # cmd.id
    BY <1>0 DEF UnderWay, AckInv, NoneUnderWay
  \* Steps that leave the poll and its answer alone, but for how far it came.
  <1>f. ASSUME UNCHANGED <<pc, cmd, reported, no_open_streams, lastEdge, listing>>,
               UnderWay' = UnderWay,
               Arriving(NoneText) => Arriving(NoneText)',
               \A s \in Streams : Arriving(StreamText(s)) => Arriving(StreamText(s))',
               Free(Streams) => Free(Streams)'
        PROVE  PollInv'
    BY <1>0, <1>f DEF PollInv
  <1>q. ASSUME UNCHANGED <<pc, cmd, reported, no_open_streams, lastEdge, listing,
                           answering, comm_edge, input_line_wifi, input_pos_wifi,
                           us_rhr, reply>>
        PROVE  PollInv'
    <2>1. UnderWay' = UnderWay /\ (Free(Streams) => Free(Streams)')
      BY <1>q DEF UnderWay, Free
    <2>2. /\ Arriving(NoneText) => Arriving(NoneText)'
          /\ \A s \in Streams : Arriving(StreamText(s)) => Arriving(StreamText(s))'
      BY <1>0, <1>q, ArrivingStays, PollTexts
    <2> QED
      BY <1>q, <1>f, <2>1, <2>2
  <1>1. ASSUME NEW kind \in Kinds, NEW size \in 0 .. MaxImage, Call(kind, size)
        PROVE  PollInv'
    BY <1>1 DEF Call
  <1>2. CASE ClearComplete
    BY <1>2 DEF ClearComplete
  <1>3. CASE SendLine
    BY <1>0, <1>3 DEF SendLine, CommandInv
  <1>4. CASE WaitReturn
    BY <1>4 DEF WaitReturn
  <1>5. CASE PutChar \/ StreamReturn
    BY <1>5 DEF PutChar, StreamReturn
  <1>6. CASE Tick
    BY <1>6, <1>q DEF Tick
  <1>7. CASE RxISR
    <2>1. Free(Streams) => Free(Streams)'
      BY <1>0, <1>7, PollTexts, FreeStays
    <2>2. /\ Arriving(NoneText) => Arriving(NoneText)'
          /\ \A s \in Streams : Arriving(StreamText(s)) => Arriving(StreamText(s))'
      BY <1>0, <1>7, PollTexts, ArrivingStays
    <2>3. /\ UNCHANGED <<pc, cmd, reported, no_open_streams, lastEdge, listing>>
          /\ UnderWay' = UnderWay
      BY <1>7 DEF RxISR, UnderWay
    <2> QED
      BY <1>f, <2>1, <2>2, <2>3
  <1>8. CASE CommISR
    <2>1. /\ comm_edge # NoReply /\ answering = NoReply /\ answering' = answering
          /\ comm_edge' = NoReply /\ UNCHANGED <<pc, cmd, reported>>
      BY <1>0, <1>8 DEF CommISR, AckInv
    <2>2. ~UnderWay'
      BY <2>1 DEF UnderWay
    <2>3. UnderWay /\ pc = "wait" /\ reported.id = cmd.id
      BY <2>1 DEF UnderWay
    <2>4. /\ cmd.kind = "poll_all"
          /\ IF reported.open = {}
               THEN listing = {} /\ Arriving(NoneText) /\ Free(Streams)
               ELSE listing # {} \/ \E s \in Streams : Arriving(StreamText(s))
      BY <1>0, <2>3 DEF PollInv
    <2>5. ~Occurs(UnknownText, input_line_wifi)
      BY <1>0 DEF Occurs, UnknownText, TextInv, Free
    <2> DEFINE Open == {s \in Streams : Occurs(StreamText(s), input_line_wifi)}
    <2>6. no_open_streams' = IF Open # {} THEN FALSE
                             ELSE no_open_streams \/ Occurs(NoneText, input_line_wifi)
      BY <1>8, <2>5 DEF CommISR, ParseLine
    <2>7. no_open_streams' <=> reported.open = {}
      <3>1. CASE reported.open = {}
        <4>1. Occurs(NoneText, input_line_wifi)
          BY <1>0, <2>1, <2>4, <3>1, Arrived
        <4>2. \A s \in Streams : StreamText(s)[1] = s
          BY DEF StreamText
        <4>3. Open = {}
          BY <2>4, <3>1, <4>2 DEF Occurs, Free
        <4> QED
          BY <2>6, <3>1, <4>1, <4>3
      <3>2. CASE reported.open # {}
        <4>1. listing = {}
          BY <1>0, <2>1 DEF LineInv
        <4>2. PICK s \in Streams : Arriving(StreamText(s))
          BY <2>4, <3>2, <4>1
        <4>3. Occurs(StreamText(s), input_line_wifi)
          BY <1>0, <2>1, <4>2, Arrived
        <4>4. Open # {}
          BY <4>3
        <4> QED
          BY <2>6, <3>2, <4>4
      <3> QED
        BY <3>1, <3>2
    <2> QED
      BY <2>1, <2>2, <2>4, <2>7 DEF PollInv
  <1>9. CASE ModuleAnswer
    <2>1. /\ pc = "wait" /\ reported.id # cmd.id /\ cmd.id # NoReply
          /\ answering = NoReply
          /\ UNCHANGED <<pc, cmd, lastEdge, no_open_streams, input_line_wifi, us_rhr>>
      BY <1>0, <1>9, Oldest DEF ModuleAnswer
    <2>2. /\ cmd.kind = "poll_all" /\ reported'.open = listing'
          /\ listing' \subseteq Streams /\ answering' = cmd.id
          /\ reply' = IF listing' = {} THEN NoneText \o <<EOL>> ELSE <<>>
      BY <1>0, <1>9, <2>1, Answered
    <2>3. lastEdge # cmd.id
      BY <1>0, <1>9 DEF ModuleAnswer, AckInv, NoneUnderWay
    <2>4. ASSUME listing' = {}
          PROVE  Arriving(NoneText)' /\ Free(Streams)'
      <3>1. Consists(reply', "No", "ne", EOL)
        BY <2>2, <2>4, TextPieces
      <3>2. Arriving(NoneText)'
        BY <2>4, <3>1 DEF Consists, Arriving, ToSend, NoneText
      <3>3. reply = <<>> /\ listing = {} /\ ~UnderWay
        BY <1>0, <1>9, <2>1, Oldest DEF LineInv, UnderWay, ModuleAnswer
      <3>4. /\ us_rhr \in {NoChar, EOL}
            /\ \A i \in Cells : input_line_wifi[i] \in {NUL, EOL}
        BY <1>0, <3>3 DEF TextInv
      <3>5. NUL \notin Streams /\ NoChar \notin Streams /\ EOL \notin Streams
        BY PollTexts
      <3>6. \A k \in 1 .. Len(reply) : reply[k] \notin Streams
        BY <3>3
      <3>7. Free(Streams)
        BY <3>4, <3>5, <3>6 DEF Free
      <3>8. \E a, b, c : Consists(reply', a, b, c) /\ {a, b, c} \cap Streams = {}
        BY <3>1, PollTexts, Zenon
      <3>9. Free(Streams)'
        BY <2>1, <3>7, <3>8, FreeOfReply
      <3> QED
        BY <3>2, <3>9
    <2> QED
      BY <2>1, <2>2, <2>3, <2>4 DEF PollInv
  <1>10. CASE ModuleRefuse \/ ModuleIgnore
    BY <1>0, <1>10, Oldest DEF ModuleRefuse, ModuleIgnore
  <1>11. CASE ModuleList
    <2>1. PICK s \in listing :
            /\ listing' = listing \ {s}
            /\ reply' = StreamText(s) \o (IF listing' = {} THEN <<EOL>> ELSE <<>>)
      BY <1>11 DEF ModuleList
    <2>2. s \in Streams
      BY <2>1 DEF TypeOK
    <2>3. UnderWay /\ UNCHANGED <<pc, cmd, reported, no_open_streams, lastEdge>>
      BY <1>0, <1>11, <2>1 DEF ModuleList, LineInv, UnderWay
    <2>4. cmd.kind = "poll_all" /\ reported.open # {}
      BY <1>0, <2>1, <2>3 DEF PollInv
    <2>5. listing' = {} => Arriving(StreamText(s))'
      <3>1. StreamText(s)[1] = s /\ StreamText(s)[2] = ",0"
        BY DEF StreamText
      <3>2. listing' = {} => Consists(reply', s, ",0", EOL)
        BY <2>1, <2>2, TextPieces, Zenon
      <3>3. ASSUME listing' = {}
            PROVE  Len(reply') = 3 /\ reply'[1] = StreamText(s)[1]
                                   /\ reply'[2] = StreamText(s)[2]
        BY <3>1, <3>2, <3>3 DEF Consists
      <3>4. ASSUME listing' = {} PROVE ToSend(2)'
        <4>1. Len(reply') = 3
          BY <3>3, <3>4, Zenon
        <4> QED
          BY <3>4, <4>1 DEF ToSend
      <3> QED
        BY <3>3, <3>4, Zenon DEF Arriving
    <2> QED
      BY <1>u, <2>2, <2>3, <2>4, <2>5 DEF PollInv
  <1>12. CASE ModuleChar
    <2>1. Free(Streams) => Free(Streams)'
      BY <1>0, <1>12, PollTexts, FreeStays
    <2>2. /\ Arriving(NoneText) => Arriving(NoneText)'
          /\ \A s \in Streams : Arriving(StreamText(s)) => Arriving(StreamText(s))'
      BY <1>0, <1>12, PollTexts, ArrivingStays
    <2>3. /\ UNCHANGED <<pc, cmd, reported, no_open_streams, lastEdge, listing>>
          /\ UnderWay' = UnderWay
      BY <1>12 DEF ModuleChar, UnderWay
    <2> QED
      BY <1>f, <2>1, <2>2, <2>3
  <1>13. CASE ModuleEdge
    <2>1. Free(Streams) => Free(Streams)'
      BY <1>13 DEF ModuleEdge, Free
    <2>2. /\ Arriving(NoneText) => Arriving(NoneText)'
          /\ \A s \in Streams : Arriving(StreamText(s)) => Arriving(StreamText(s))'
      BY <1>0, <1>13, PollTexts, ArrivingStays
    <2>3. /\ UNCHANGED <<pc, cmd, reported, no_open_streams, lastEdge, listing>>
          /\ UnderWay /\ UnderWay'
      BY <1>13 DEF ModuleEdge, UnderWay
    <2>4. UnderWay' = UnderWay
      BY <2>3 DEF UnderWay
    <2> QED
      BY <1>f, <2>1, <2>2, <2>3, <2>4
  <1>14. CASE ModuleHold \/ ModuleReady
    BY <1>14, <1>q DEF ModuleHold, ModuleReady
  <1>15. CASE UNCHANGED vars
    BY <1>15, <1>q DEF vars
  <1> QED
    BY <1>1, <1>2, <1>3, <1>4, <1>5, <1>6, <1>7, <1>8, <1>9, <1>10, <1>11,
       <1>12, <1>13, <1>14, <1>15 DEF Next, Program, Interrupts, Module

LEMMA LinkInit == Init => LinkInv
  <1> SUFFICES ASSUME Init PROVE LinkInv
    OBVIOUS
  <1>1. /\ pc = "idle" /\ inbox = <<>> /\ answering = NoReply /\ comm_edge = NoReply
        /\ reply = <<>> /\ us_rhr = NoChar /\ expecting = 0 /\ sent = 0
        /\ cmd.id = 0 /\ reported.id = 0
        /\ \A i \in Cells : input_line_wifi[i] = NUL
    BY DEF Init, EmptyLine, NoCommand
  <1>2. Free({"commmand"})
    BY <1>1, RejectNeverMatches DEF Free
  <1>3. TextInv
    BY <1>1, <1>2 DEF TextInv
  <1>4. CommandInv /\ DataInv /\ PollInv
    BY <1>1 DEF CommandInv, DataInv, PollInv
  <1> QED
    BY <1>3, <1>4, AckInit, LineInit DEF LinkInv

LEMMA LinkStep == Prompt /\ TypeOK /\ LinkInv /\ [Next]_vars => (TypeOK /\ LinkInv)'
  <1> SUFFICES ASSUME Prompt, TypeOK, LinkInv, [Next]_vars PROVE TypeOK' /\ LinkInv'
    OBVIOUS
  <1>1. AckInv /\ LineInv /\ TextInv /\ CommandInv /\ DataInv /\ PollInv
    BY DEF LinkInv
  <1>2. TypeOK' /\ AckInv' /\ LineInv'
    BY <1>1, StepType, AckStep, LineStep, PromptFacts
  <1>3. TextInv' /\ CommandInv' /\ DataInv' /\ PollInv'
    BY <1>1, TextStep, CommandStep, DataStep, PollStep
  <1> QED
    BY <1>2, <1>3 DEF LinkInv

\* The inductive invariant of a link whose module answers in time and only when
\* asked, and whose receiver is read in time.
THEOREM LinkInvariant ==
    ASSUME Prompt PROVE Spec => []LinkInv
  <1>1. Init => TypeOK /\ LinkInv
    BY InitType, LinkInit
  <1>2. TypeOK /\ LinkInv /\ [Next]_vars => (TypeOK /\ LinkInv)'
    BY LinkStep
  <1> QED
    BY <1>1, <1>2, PTL DEF Spec

\* wifi.c:258: no command line is written while the module is owed image data.
THEOREM LineNotDataHolds ==
    ASSUME Prompt PROVE Spec => []LineNotData
  <1>1. TypeOK /\ LinkInv => LineNotData
    BY ExpectsNone DEF LinkInv, LineNotData
  <1> QED
    BY <1>1, LinkInvariant, TypeCorrect, PTL

\* main.c:101: the poll that main() decides on is the one it sent last.
THEOREM PollAnswerIsCurrentHolds ==
    ASSUME Prompt PROVE Spec => []PollAnswerIsCurrent
  <1>1. LinkInv => PollAnswerIsCurrent
    BY DEF LinkInv, PollInv, PollAnswerIsCurrent
  <1> QED
    BY <1>1, LinkInvariant, PTL

-----------------------------------------------------------------------------
(* The image.  A module that answers every command ends the wait of an      *)
(* image_transfer by its own answer, and then expects what is written.      *)

LEMMA WillingIsPrompt ==
    Willing => Prompt /\ "silent" \notin ModuleMay /\ "refuse" \notin ModuleMay
  BY DEF Willing, Prompt

LEMMA TransferStep ==
    Willing /\ TypeOK /\ LinkInv /\ TransferInv /\ [Next]_vars => TransferInv'
  <1> SUFFICES ASSUME Willing, TypeOK, LinkInv, TransferInv, [Next]_vars
               PROVE  TransferInv'
    OBVIOUS
  <1> USE DEF mainVars, moduleVars
  <1>0. /\ AckInv /\ CommandInv /\ DataInv
        /\ expecting \in Nat /\ sent \in Nat /\ cmd.size \in Nat
        /\ inbox \in Seq(Command)
    BY BoundAssumption DEF LinkInv, TypeOK, Command
  <1>f. ASSUME UNCHANGED <<pc, cmd, sent, inbox, expecting, lastEdge>>,
               NoneUnderWay' => NoneUnderWay
        PROVE  TransferInv'
    BY <1>f DEF TransferInv
  <1>1. ASSUME NEW kind \in Kinds, NEW size \in 0 .. MaxImage, Call(kind, size)
        PROVE  TransferInv'
    BY <1>1 DEF Call, TransferInv
  <1>2. CASE ClearComplete \/ StreamReturn
    BY <1>2 DEF ClearComplete, StreamReturn, TransferInv
  <1>3. CASE SendLine
    <2>1. expecting = 0
      BY <1>0, <1>3, ExpectsNone DEF SendLine
    <2>2. inbox' # <<>> /\ pc' = "wait"
      BY <1>0, <1>3, <2>1 DEF SendLine
    <2> QED
      BY <2>2 DEF TransferInv, NoneUnderWay
  <1>4. CASE WaitReturn
    <2>1. inbox = <<>> /\ sent = 0 /\ pc = "wait" /\ UNCHANGED <<cmd, sent, expecting>>
      BY <1>0, <1>4 DEF WaitReturn, AckInv, NoneUnderWay, CommandInv
    <2>2. pc' = "stream" => cmd.kind = "image_transfer"
      BY <1>4 DEF WaitReturn
    <2>3. pc' # "wait"
      BY <1>4 DEF WaitReturn
    <2> QED
      BY <1>0, <2>1, <2>2, <2>3 DEF TransferInv
  <1>5. CASE PutChar
    <2>1. pc = "stream" /\ pc' = "stream" /\ cmd' = cmd /\ sent < cmd.size
          /\ sent' = sent + 1
      BY <1>5 DEF PutChar
    <2>2. expecting = cmd.size - sent
      BY <2>1 DEF TransferInv
    <2>3. expecting' = expecting - 1
      BY <1>0, <1>5, <2>1, <2>2 DEF PutChar, TakeData
    <2> QED
      BY <1>0, <2>1, <2>2, <2>3 DEF TransferInv
  <1>6. CASE Tick \/ RxISR
    BY <1>6, <1>f DEF Tick, RxISR, NoneUnderWay
  <1>7. CASE CommISR
    <2>1. comm_edge = cmd.id /\ lastEdge' = cmd.id
      BY <1>0, <1>7 DEF CommISR, AckInv
    <2> QED
      BY <1>7, <2>1 DEF CommISR, TransferInv
  <1>8. CASE ModuleAnswer
    <2>1. pc = "wait" /\ UNCHANGED <<pc, cmd, sent>> /\ cmd.id # NoReply
      BY <1>0, <1>8, Oldest DEF ModuleAnswer
    <2>2. answering' # NoReply
      BY <1>0, <1>8, <2>1, Answered
    <2>3. cmd.kind = "image_transfer" => expecting' = cmd.size
      BY <1>0, <1>8, Answered
    <2> QED
      BY <2>1, <2>2, <2>3 DEF TransferInv, NoneUnderWay
  <1>9. CASE ModuleRefuse \/ ModuleIgnore
    BY <1>9, WillingIsPrompt DEF ModuleRefuse, ModuleIgnore
  <1>10. CASE ModuleList \/ ModuleChar
    BY <1>10, <1>f DEF ModuleList, ModuleChar, NoneUnderWay
  <1>11. CASE ModuleEdge
    <2>1. ~NoneUnderWay'
      BY <1>11 DEF ModuleEdge, NoneUnderWay
    <2> QED
      BY <1>11, <1>f, <2>1 DEF ModuleEdge
  <1>12. CASE ModuleHold \/ ModuleReady \/ UNCHANGED vars
    BY <1>12, <1>f DEF ModuleHold, ModuleReady, vars, NoneUnderWay
  <1> QED
    BY <1>1, <1>2, <1>3, <1>4, <1>5, <1>6, <1>7, <1>8, <1>9, <1>10, <1>11,
       <1>12 DEF Next, Program, Interrupts, Module

\* wifi.c:276: while write_image_to_file() writes, the module expects exactly
\* the bytes that are still to come.
THEOREM StreamAgreedHolds ==
    ASSUME Willing PROVE Spec => []StreamAgreed
  <1>1. Init => TypeOK /\ LinkInv /\ TransferInv
    BY InitType, LinkInit DEF Init, TransferInv
  <1>2. TypeOK /\ LinkInv /\ TransferInv /\ [Next]_vars
          => (TypeOK /\ LinkInv /\ TransferInv)'
    BY LinkStep, TransferStep, WillingIsPrompt
  <1>3. TransferInv => StreamAgreed
    BY DEF TransferInv, StreamAgreed
  <1> QED
    BY <1>1, <1>2, <1>3, PTL DEF Spec

-----------------------------------------------------------------------------
(* The link implements CommandExchange.                                     *)

\* Steps that the abstract exchange does not see.
LEMMA ExchangeFrame ==
    ASSUME UNCHANGED <<cmd, cnt, lastEdge>>, Busy' = Busy,
           Busy => counts' = counts
    PROVE  UNCHANGED Exchange!vars
  BY DEF Exchange!vars

LEMMA ExchangeInit == Init => Exchange!Init
  <1> SUFFICES ASSUME Init PROVE Exchange!Init
    OBVIOUS
  <1>1. ~Busy
    BY DEF Init, Busy
  <1>2. cmd.id = 0
    BY DEF Init, NoCommand
  <1> QED
    BY <1>1, <1>2 DEF Exchange!Init

LEMMA ExchangeStep ==
    OnTime /\ TypeOK /\ AckInv /\ [Next]_vars => [Exchange!Next]_(Exchange!vars)
  <1> SUFFICES ASSUME OnTime, TypeOK, AckInv, [Next]_vars
               PROVE  Exchange!Next \/ UNCHANGED Exchange!vars
    OBVIOUS
  <1> USE DEF mainVars, flagVars, lineVars, moduleVars
  <1>0. /\ cmd.id \in Nat /\ cnt \in Nat /\ counts \in Nat
        /\ cnt < CountMod /\ CountMod \in Nat /\ lastEdge \in Int
    BY TimeoutAssumption, BoundAssumption DEF TypeOK, Command, Replies, NoReply
  <1>1. ASSUME NEW kind \in Kinds, NEW size \in 0 .. MaxImage, Call(kind, size)
        PROVE  Exchange!Issue
    <2>1. cmd'.id = cmd.id + 1 /\ lastEdge' # cmd'.id
      BY <1>0, <1>1 DEF Call, AckInv
    <2>2. cnt' \in {Truncated(ShortTimeout), Truncated(LongTimeout)}
      BY <1>1 DEF Call, Timeout
    <2>3. ~Busy /\ Busy' /\ cmd.id < MaxCommands /\ counts' = 0
      BY <1>1 DEF Call, Busy
    <2> QED
      BY <2>1, <2>2, <2>3 DEF Exchange!Issue
  <1>2. CASE WaitReturn
    <2>1. Busy /\ ~Busy' /\ UNCHANGED <<cmd, cnt, counts, lastEdge>>
      BY <1>2 DEF WaitReturn, Busy
    <2>2. lastEdge = cmd.id \/ counts >= cnt
      BY <1>2 DEF WaitReturn, WaitOver, AckInv
    <2> QED
      BY <2>1, <2>2 DEF Exchange!Next, Exchange!Return
  <1>3. CASE Tick
    <2>1. UNCHANGED <<pc, cmd, cnt, lastEdge>> /\ Busy' = Busy
      BY <1>3 DEF Tick, Busy
    <2>2. CASE Busy
      <3>1. counts < cnt
        BY <1>0, <1>3, <2>2 DEF Tick, Busy, WaitOver, AckInv
      <3>2. counts' = counts + 1
        BY <1>0, <1>3, <3>1 DEF Tick
      <3> QED
        BY <2>1, <2>2, <3>1, <3>2 DEF Exchange!Next, Exchange!Elapse
    <2>3. CASE ~Busy
      BY <2>1, <2>3, ExchangeFrame
    <2> QED
      BY <2>2, <2>3
  <1>4. CASE CommISR
    <2>1. Busy /\ lastEdge # cmd.id /\ comm_edge = cmd.id
      BY <1>4 DEF CommISR, AckInv, NoneUnderWay, Busy
    <2>2. Busy' /\ UNCHANGED <<cmd, cnt, counts>> /\ lastEdge' = cmd.id
      BY <1>4, <2>1 DEF CommISR, Busy
    <2> QED
      BY <2>1, <2>2 DEF Exchange!Next, Exchange!Acknowledge
  <1>5. CASE ClearComplete \/ SendLine
    BY <1>5, ExchangeFrame DEF ClearComplete, SendLine, Busy
  <1>6. CASE PutChar \/ StreamReturn
    BY <1>6, ExchangeFrame DEF PutChar, StreamReturn, Busy
  <1>7. CASE RxISR
    BY <1>7, ExchangeFrame DEF RxISR, Busy
  <1>8. CASE ModuleAnswer \/ ModuleRefuse \/ ModuleIgnore
    BY <1>8, ExchangeFrame DEF ModuleAnswer, ModuleRefuse, ModuleIgnore, Busy
  <1>9. CASE ModuleList \/ ModuleChar \/ ModuleEdge
    BY <1>9, ExchangeFrame DEF ModuleList, ModuleChar, ModuleEdge, Busy
  <1>10. CASE ModuleHold \/ ModuleReady
    BY <1>10, ExchangeFrame DEF ModuleHold, ModuleReady, Busy
  <1>11. CASE UNCHANGED vars
    BY <1>11, ExchangeFrame DEF vars, Busy
  <1> QED
    BY <1>1, <1>2, <1>3, <1>4, <1>5, <1>6, <1>7, <1>8, <1>9, <1>10, <1>11
       DEF Next, Program, Interrupts, Module, Exchange!Next

\* wifi.c:247: with a module that answers in time, write_wifi_command() is an
\* exchange of one command for its own acknowledgment or its whole timeout.
THEOREM LinkImplementsExchange ==
    ASSUME OnTime PROVE Spec => ImplementsExchange
  <1>1. Init => TypeOK /\ AckInv /\ Exchange!Init
    BY InitType, AckInit, ExchangeInit
  <1>2. TypeOK /\ AckInv /\ [Next]_vars => (TypeOK /\ AckInv)'
    BY StepType, AckStep
  <1>3. TypeOK /\ AckInv /\ [Next]_vars => [Exchange!Next]_(Exchange!vars)
    BY ExchangeStep
  <1> QED
    BY <1>1, <1>2, <1>3, PTL DEF Spec, ImplementsExchange, Exchange!Spec
=============================================================================
