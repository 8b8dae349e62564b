---------------------------- MODULE WebcamProofs ----------------------------
(***************************************************************************)
(* Theorems about main(), whatever CTS does while the module is in reset.  *)
(***************************************************************************)
EXTENDS Webcam, TLAPS

LEMMA Names ==
    /\ {"boot", "promptOff", "echoOff", "settle", "loop", "setupDone", "decide",
        "polled", "pause", "capture", "captured", "write", "answer", "stream"}
         \subseteq Locations
    /\ {"set_sy", "poll_all", "setup_web", "image_transfer"} \subseteq Kinds
  BY DEF Locations, Kinds

\* A call of write_wifi_command() leaves every variable it assigns typed.
LEMMA CallTyped ==
    ASSUME NEW kind \in Kinds, NEW next \in Locations, Call(kind, next)
    PROVE  /\ pc' \in Locations /\ call' \in [kind : Kinds, next : Locations]
           /\ expired' \in BOOLEAN /\ wifi_cmd_complete' \in BOOLEAN
  BY Names DEF Call

LEMMA InitHeld == Init => HeldInv
  <1> SUFFICES ASSUME Init PROVE HeldInv
    OBVIOUS
  <1>1. TypeOK
    BY CtsAssumption DEF Init, TypeOK, NoCall, Kinds, Locations, imageVars
  <1> QED
    BY <1>1 DEF Init, HeldInv, HeldKnown

\* The steps of a command.
LEMMA CommandStep ==
    HeldInv /\ (WriteLine \/ CommandReturns \/ StreamImage) => HeldInv'
  <1> SUFFICES ASSUME HeldInv, WriteLine \/ CommandReturns \/ StreamImage
               PROVE  HeldInv'
    OBVIOUS
  <1> USE DEF imageVars, moduleVars
  <1>0. TypeOK /\ HeldKnown
    BY DEF HeldInv
  <1>1. CASE WriteLine
    <2>1. owed' \subseteq Kinds
      BY <1>0, <1>1, Names DEF WriteLine, TypeOK
    <2>2. TypeOK'
      BY <1>0, <1>1, <2>1, Names DEF WriteLine, TypeOK
    <2>3. HeldKnown'
      BY <1>0, <1>1, <2>1 DEF WriteLine, HeldKnown, TypeOK
    <2> QED
      BY <2>2, <2>3 DEF HeldInv
  <1>2. CASE CommandReturns
    <2>1. TypeOK'
      BY <1>0, <1>2, Names DEF CommandReturns, TypeOK
    <2>2. HeldKnown'
      BY <1>0, <1>2 DEF CommandReturns, HeldKnown
    <2> QED
      BY <2>1, <2>2 DEF HeldInv
  <1>3. CASE StreamImage
    <2>1. TypeOK'
      BY <1>0, <1>3, Names DEF StreamImage, TypeOK
    <2>2. HeldKnown'
      BY <1>0, <1>3 DEF StreamImage, HeldKnown
    <2> QED
      BY <2>1, <2>2 DEF HeldInv
  <1> QED
    BY <1>1, <1>2, <1>3

LEMMA BootStep == HeldInv /\ (Boot \/ Quieten \/ FirstCheck) => HeldInv'
  <1> SUFFICES ASSUME HeldInv, Boot \/ Quieten \/ FirstCheck PROVE HeldInv'
    OBVIOUS
  <1> USE DEF imageVars, moduleVars
  <1>0. TypeOK /\ HeldKnown
    BY DEF HeldInv
  <1>1. CASE Boot
    <2>1. TypeOK'
      BY <1>0, <1>1, Names DEF Boot, TypeOK
    <2>2. HeldKnown'
      BY <1>0, <1>1 DEF Boot, HeldKnown
    <2> QED
      BY <2>1, <2>2 DEF HeldInv
  <1>2. CASE Quieten
    <2>1. /\ pc' \in Locations /\ call' \in [kind : Kinds, next : Locations]
          /\ expired' \in BOOLEAN /\ wifi_cmd_complete' \in BOOLEAN
      BY <1>0, <1>2, Names, CallTyped DEF Quieten, TypeOK
    <2>2. TypeOK'
      BY <1>0, <1>2, <2>1 DEF Quieten, TypeOK
    <2>3. HeldKnown'
      BY <1>0, <1>2 DEF Quieten, HeldKnown, Call
    <2> QED
      BY <2>2, <2>3 DEF HeldInv
  <1>3. CASE FirstCheck
    <2>1. /\ pc' \in Locations /\ call' \in [kind : Kinds, next : Locations]
          /\ expired' \in BOOLEAN /\ wifi_cmd_complete' \in BOOLEAN
      BY <1>0, <1>3, Names, CallTyped DEF FirstCheck, TypeOK
    <2>2. TypeOK'
      BY <1>0, <1>3, <2>1 DEF FirstCheck, TypeOK
    <2>3. HeldKnown'
      BY <1>0, <1>3 DEF FirstCheck, HeldKnown, Call
    <2> QED
      BY <2>2, <2>3 DEF HeldInv
  <1> QED
    BY <1>1, <1>2, <1>3

LEMMA ResetStep == HeldInv /\ ResetModule => HeldInv'
  <1> SUFFICES ASSUME HeldInv, ResetModule PROVE HeldInv'
    OBVIOUS
  <1>1. cts' \in BOOLEAN
    BY CtsAssumption DEF ResetModule, HeldInv, TypeOK
  <1>2. TypeOK'
    BY <1>1, Names DEF ResetModule, HeldInv, TypeOK, imageVars
  <1>3. HeldKnown'
    BY DEF ResetModule, HeldInv, HeldKnown
  <1> QED
    BY <1>2, <1>3 DEF HeldInv

LEMMA LoopStep ==
    HeldInv /\ (LoopTop \/ SetupDone \/ Poll \/ AfterPoll \/ Pause \/ Capture
                \/ Transfer) => HeldInv'
  <1> SUFFICES ASSUME HeldInv,
                      \/ LoopTop \/ SetupDone \/ Poll \/ AfterPoll \/ Pause
                      \/ Capture \/ Transfer
               PROVE  HeldInv'
    OBVIOUS
  <1> USE DEF imageVars, moduleVars
  <1>0. TypeOK /\ HeldKnown
    BY DEF HeldInv
  <1>1. CASE LoopTop
    <2>1. /\ pc' \in Locations /\ call' \in [kind : Kinds, next : Locations]
          /\ expired' \in BOOLEAN /\ wifi_cmd_complete' \in BOOLEAN
      BY <1>0, <1>1, Names, CallTyped DEF LoopTop, TypeOK
    <2>2. TypeOK'
      BY <1>0, <1>1, <2>1 DEF LoopTop, TypeOK
    <2>3. HeldKnown'
      BY <1>0, <1>1 DEF LoopTop, HeldKnown, Call
    <2> QED
      BY <2>2, <2>3 DEF HeldInv
  <1>2. CASE SetupDone
    <2>1. initiate_web_setup_flag' \in BOOLEAN
      BY <1>2 DEF SetupDone
    <2>2. TypeOK'
      BY <1>0, <1>2, <2>1, Names DEF SetupDone, TypeOK
    <2>3. HeldKnown'
      BY <1>0, <1>2 DEF SetupDone, HeldKnown
    <2> QED
      BY <2>2, <2>3 DEF HeldInv
  <1>3. CASE Poll
    <2>1. /\ pc' \in Locations /\ call' \in [kind : Kinds, next : Locations]
          /\ expired' \in BOOLEAN /\ wifi_cmd_complete' \in BOOLEAN
      BY <1>0, <1>3, Names, CallTyped DEF Poll, TypeOK
    <2>2. TypeOK'
      BY <1>0, <1>3, <2>1 DEF Poll, TypeOK
    <2>3. HeldKnown'
      BY <1>0, <1>3 DEF Poll, HeldKnown, Call
    <2> QED
      BY <2>2, <2>3 DEF HeldInv
  <1>4. CASE AfterPoll
    <2>1. TypeOK'
      BY <1>0, <1>4, Names DEF AfterPoll, TypeOK
    <2>2. HeldKnown'
      BY <1>0, <1>4 DEF AfterPoll, HeldKnown
    <2> QED
      BY <2>1, <2>2 DEF HeldInv
  <1>5. CASE Pause
    <2>1. TypeOK'
      BY <1>0, <1>5, Names DEF Pause, TypeOK
    <2>2. HeldKnown'
      BY <1>0, <1>5 DEF Pause, HeldKnown
    <2> QED
      BY <2>1, <2>2 DEF HeldInv
  <1>6. CASE Capture
    <2>1. image_size' \in {0, 1} /\ image_capture_success' \in BOOLEAN
      BY <1>0, <1>6, Names DEF Capture, TypeOK
    <2>2. TypeOK'
      BY <1>0, <1>6, <2>1, Names DEF Capture, TypeOK
    <2>3. HeldKnown'
      BY <1>0, <1>6, <2>1 DEF Capture, HeldKnown, TypeOK
    <2> QED
      BY <2>2, <2>3 DEF HeldInv
  <1>7. CASE Transfer
    <2>1. /\ pc' \in Locations /\ call' \in [kind : Kinds, next : Locations]
          /\ expired' \in BOOLEAN /\ wifi_cmd_complete' \in BOOLEAN
      BY <1>0, <1>7, Names, CallTyped DEF Transfer, TypeOK
    <2>2. TypeOK'
      BY <1>0, <1>7, <2>1 DEF Transfer, TypeOK
    <2>3. HeldKnown'
      BY <1>0, <1>7 DEF Transfer, HeldKnown, Call
    <2> QED
      BY <2>2, <2>3 DEF HeldInv
  <1> QED
    BY <1>1, <1>2, <1>3, <1>4, <1>5, <1>6, <1>7

\* Interrupts and the module.
LEMMA OtherStep ==
    HeldInv /\ (Expire \/ Press \/ Answers \/ ModuleBoots \/ NetworkChanges
                \/ SessionEnds) => HeldInv'
  <1> SUFFICES ASSUME HeldInv,
                      \/ Expire \/ Press \/ Answers \/ ModuleBoots
                      \/ NetworkChanges \/ SessionEnds
               PROVE  HeldInv'
    OBVIOUS
  <1> USE DEF imageVars, moduleVars
  <1>0. TypeOK /\ HeldKnown
    BY DEF HeldInv
  <1>1. CASE Expire
    <2>1. TypeOK'
      BY <1>0, <1>1, Names DEF Expire, TypeOK
    <2>2. HeldKnown'
      BY <1>0, <1>1 DEF Expire, HeldKnown
    <2> QED
      BY <2>1, <2>2 DEF HeldInv
  <1>2. CASE Press
    <2>1. TypeOK'
      BY <1>0, <1>2, Names DEF Press, TypeOK
    <2>2. HeldKnown'
      BY <1>0, <1>2 DEF Press, HeldKnown
    <2> QED
      BY <2>1, <2>2 DEF HeldInv
  <1>3. CASE PollAnswered
    <2>1. /\ owed' \subseteq Kinds /\ no_open_streams' \in BOOLEAN
          /\ known' \in {"nothing", "none", "open"}
      BY <1>0, <1>3, Names DEF PollAnswered, TypeOK
    <2>2. TypeOK'
      BY <1>0, <1>3, <2>1, Names DEF PollAnswered, TypeOK
    <2>3. HeldKnown'
      BY <1>0, <1>3, <2>1 DEF PollAnswered, HeldKnown, TypeOK
    <2> QED
      BY <2>2, <2>3 DEF HeldInv
  <1>4. CASE OtherAnswered
    <2>1. /\ owed' \subseteq Kinds /\ image_transf_ready' \in BOOLEAN
          /\ session' \in BOOLEAN /\ connected' \in BOOLEAN
          /\ ~connected => ~connected'
      BY <1>0, <1>4, Names DEF OtherAnswered, TypeOK
    <2>2. TypeOK'
      BY <1>0, <1>4, <2>1, Names DEF OtherAnswered, TypeOK
    <2>3. HeldKnown'
      BY <1>0, <1>4, <2>1 DEF OtherAnswered, HeldKnown, TypeOK
    <2> QED
      BY <2>2, <2>3 DEF HeldInv
  <1>5. CASE Refused
    <2>1. owed' \subseteq Kinds
      BY <1>0, <1>5, Names DEF Refused, TypeOK
    <2>2. TypeOK'
      BY <1>0, <1>5, <2>1, Names DEF Refused, TypeOK
    <2>3. HeldKnown'
      BY <1>0, <1>5, <2>1 DEF Refused, HeldKnown, TypeOK
    <2> QED
      BY <2>2, <2>3 DEF HeldInv
  <1>6. CASE ModuleBoots
    <2>1. TypeOK'
      BY <1>0, <1>6, Names DEF ModuleBoots, TypeOK
    <2>2. HeldKnown'
      BY <1>0, <1>6 DEF ModuleBoots, HeldKnown
    <2> QED
      BY <2>1, <2>2 DEF HeldInv
  <1>7. CASE NetworkChanges
    <2>1. TypeOK'
      BY <1>0, <1>7, Names DEF NetworkChanges, TypeOK
    <2>2. HeldKnown'
      BY <1>0, <1>7 DEF NetworkChanges, HeldKnown
    <2> QED
      BY <2>1, <2>2 DEF HeldInv
  <1>8. CASE SessionEnds
    <2>1. session' \in BOOLEAN
      BY <1>8 DEF SessionEnds
    <2>2. TypeOK'
      BY <1>0, <1>8, <2>1, Names DEF SessionEnds, TypeOK
    <2>3. HeldKnown'
      BY <1>0, <1>8 DEF SessionEnds, HeldKnown
    <2> QED
      BY <2>2, <2>3 DEF HeldInv
  <1> QED
    BY <1>1, <1>2, <1>3, <1>4, <1>5, <1>6, <1>7, <1>8 DEF Answers

LEMMA HeldStep == HeldInv /\ [Next]_vars => HeldInv'
  <1>1. HeldInv /\ UNCHANGED vars => HeldInv'
    BY DEF vars, imageVars, moduleVars, HeldInv, HeldKnown, TypeOK
  <1> QED
    BY <1>1, CommandStep, BootStep, ResetStep, LoopStep, OtherStep
       DEF Next, Main

LEMMA NoneKeptStep == NoneKept /\ [Next]_vars => NoneKept'
  <1> SUFFICES ASSUME NoneKept, [Next]_vars PROVE NoneKept'
    OBVIOUS
  <1> USE DEF NoneKept
  <1>1. CASE Pause
    BY <1>1 DEF Pause
  <1>2. CASE PollAnswered
    BY <1>2 DEF PollAnswered
  <1>3. CASE Main /\ ~Pause
    <2>1. known' = known /\ no_open_streams' = no_open_streams
      BY <1>3 DEF Main, WriteLine, CommandReturns, StreamImage, Boot, Quieten,
                  FirstCheck, LoopTop, SetupDone, Poll, ResetModule, AfterPoll,
                  Capture, Transfer
    <2> QED
      BY <2>1
  <1>4. CASE Expire \/ Press \/ OtherAnswered \/ Refused \/ ModuleBoots
             \/ NetworkChanges \/ SessionEnds
    <2>1. known' = known /\ no_open_streams' = no_open_streams
      BY <1>4 DEF Expire, Press, OtherAnswered, Refused, ModuleBoots,
                  NetworkChanges, SessionEnds
    <2> QED
      BY <2>1
  <1>5. CASE UNCHANGED vars
    BY <1>5 DEF vars
  <1> QED
    BY <1>1, <1>2, <1>3, <1>4, <1>5 DEF Next, Answers

\* What main() knows of the network while it holds the module in reset, and of
\* the streams since the last answer to a poll.
THEOREM MainInvariant == Spec => []MainInv
  <1>1. Init => MainInv
    BY InitHeld DEF Init, NoneKept, MainInv
  <1>2. MainInv /\ [Next]_vars => MainInv'
    BY HeldStep, NoneKeptStep DEF MainInv
  <1> QED
    BY <1>1, <1>2, PTL DEF Spec

\* Once the module is in reset, main() neither polls it nor captures or
\* transfers a picture; it writes at most "setup web".
THEOREM NoTrafficWhileHeldHolds == Spec => []NoTrafficWhileHeld
  <1>1. MainInv => NoTrafficWhileHeld
    BY DEF MainInv, HeldInv, HeldKnown, TypeOK, NoTrafficWhileHeld
  <1> QED
    BY <1>1, MainInvariant, PTL

\* main() leaves the poll for a capture in one place only.
LEMMA CaptureDecided ==
    ASSUME [Next]_vars, pc = "polled", pc' = "capture" PROVE ~no_open_streams
  <1>1. CASE Main
    BY <1>1 DEF Main, WriteLine, CommandReturns, StreamImage, Boot, Quieten,
                FirstCheck, LoopTop, SetupDone, Poll, ResetModule, AfterPoll,
                Pause, Capture, Transfer
  <1>2. CASE Expire \/ Press \/ Answers \/ ModuleBoots \/ NetworkChanges
             \/ SessionEnds
    <2>1. pc' = pc
      BY <1>2 DEF Expire, Press, Answers, PollAnswered, OtherAnswered, Refused,
                  ModuleBoots, NetworkChanges, SessionEnds
    <2> QED
      BY <2>1
  <1>3. CASE UNCHANGED vars
    BY <1>3 DEF vars
  <1> QED
    BY <1>1, <1>2, <1>3 DEF Next

\* A module that said that no stream is open gets no picture until it says
\* that one is, however the answers to the polls in between are delayed.
THEOREM NoPictureForNobodyHolds == Spec => NoPictureForNobody
  <1>1. MainInv /\ [Next]_vars =>
          [pc = "polled" /\ pc' = "capture" => known # "none"]_vars
    BY CaptureDecided DEF MainInv, NoneKept
  <1> QED
    BY <1>1, MainInvariant, PTL DEF Spec, NoPictureForNobody
=============================================================================
