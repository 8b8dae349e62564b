------------------------- MODULE FrameCaptureProofs -------------------------
(***************************************************************************)
(* Theorems about start_capture(), for every buffer size and every length  *)
(* of the camera's frames that FrameAssumption allows.                     *)
(***************************************************************************)
EXTENDS FrameCapture, TLAPS

USE FrameAssumption

LEMMA Sizes ==
    /\ MaxFrame \in Nat /\ MAX_IMAGE_SIZE \in Nat
    /\ 0 \in 0 .. MAX_IMAGE_SIZE /\ MAX_IMAGE_SIZE \in 0 .. MAX_IMAGE_SIZE
    /\ 0 \in 0 .. MaxFrame /\ 0 \in 0 .. 0
  OBVIOUS

LEMMA FrameByteIsByte == \A n, p : FrameByte(n, p) \in Byte
  BY DEF FrameByte, Byte

LEMMA InitCapture == Init => CaptureInv
  <1> SUFFICES ASSUME Init PROVE CaptureInv
    OBVIOUS
  <1>1. [i \in Index |-> "xx"] \in [Index -> Byte]
    BY DEF Byte
  <1> QED
    BY <1>1, Sizes DEF Init, CaptureInv, TypeOK, VsyncFlagFresh, NoEdge

\* The steps of the program that leave the buffer alone.
LEMMA FirmwareStep == CaptureInv /\ (EnableVsync \/ Firmware) => CaptureInv'
  <1> SUFFICES ASSUME CaptureInv, EnableVsync \/ Firmware PROVE CaptureInv'
    OBVIOUS
  <1> USE DEF CaptureInv, TypeOK, VsyncFlagFresh, pioVars, cameraVars
  <1>1. CASE EnableVsync
    BY <1>1 DEF EnableVsync
  <1>2. CASE VsyncSeen
    BY <1>2 DEF VsyncSeen
  <1>3. CASE EnableCapture
    BY <1>3 DEF EnableCapture
  <1>4. CASE CaptureToBuffer
    BY <1>4, Sizes DEF CaptureToBuffer
  <1>5. CASE BufferFull
    BY <1>5 DEF BufferFull
  <1>6. CASE StopCapture
    <2>1. image_capture_success' \in BOOLEAN
      BY <1>6 DEF StopCapture
    <2> QED
      BY <1>6, <2>1 DEF StopCapture
  <1> QED
    BY <1>1, <1>2, <1>3, <1>4, <1>5, <1>6 DEF Firmware

LEMMA HandlerStep == CaptureInv /\ PIOA_Handler => CaptureInv'
  <1> SUFFICES ASSUME CaptureInv, PIOA_Handler PROVE CaptureInv'
    OBVIOUS
  <1> USE DEF PIOA_Handler, CaptureInv, TypeOK, VsyncFlagFresh, NoEdge
  <1>1. /\ pc' = pc /\ imr' = imr /\ pcen' = pcen /\ rcr' = rcr /\ rncr' = rncr
        /\ vsync' = vsync /\ frame' = frame /\ pos' = pos
        /\ image_buffer' = image_buffer /\ isr' = NoEdge
        /\ image_capture_success' = image_capture_success
    BY DEF pioVars, cameraVars
  <1>2. /\ g_ul_vsync_flag' \in BOOLEAN
        /\ ~imr => g_ul_vsync_flag' = g_ul_vsync_flag
    OBVIOUS
  <1>3. pc = "idle" => ~g_ul_vsync_flag'
    BY <1>2
  <1> QED
    BY <1>1, <1>2, <1>3

\* A byte from the camera: the channel stops at the end of its only bank.
LEMMA DataStep == CaptureInv /\ FrameData => CaptureInv'
  <1> SUFFICES ASSUME CaptureInv, FrameData PROVE CaptureInv'
    OBVIOUS
  <1>1. image_buffer' \in [Index -> Byte]
    BY FrameByteIsByte DEF FrameData, CaptureInv, TypeOK
  <1>2. rcr' \in 0 .. MAX_IMAGE_SIZE /\ rncr' = 0 /\ (rcr = 0 => rcr' = 0)
    BY DEF FrameData, CaptureInv, TypeOK
  <1>3. frame' \in 0 .. MaxFrame /\ pos' \in 0 .. frame'
    BY DEF FrameData, CaptureInv, TypeOK
  <1> QED
    BY <1>1, <1>2, <1>3, Sizes
       DEF FrameData, CaptureInv, TypeOK, VsyncFlagFresh

LEMMA CameraStep == CaptureInv /\ Camera => CaptureInv'
  <1> SUFFICES ASSUME CaptureInv, Camera PROVE CaptureInv'
    OBVIOUS
  <1>1. CASE FrameStart
    <2>1. frame' \in 0 .. MaxFrame /\ pos' \in 0 .. frame'
      BY <1>1 DEF FrameStart
    <2> QED
      BY <1>1, <2>1
         DEF FrameStart, CaptureInv, TypeOK, VsyncFlagFresh, pioVars
  <1>2. CASE FrameData
    BY <1>2, DataStep
  <1>3. CASE FrameEnd
    BY <1>3 DEF FrameEnd, CaptureInv, TypeOK, VsyncFlagFresh, pioVars
  <1> QED
    BY <1>1, <1>2, <1>3 DEF Camera

\* The interrupt, the capture unit and its DMA channel are enabled, programmed
\* and released in step with start_capture(), for every size.
THEOREM CaptureInvariant == Spec => []CaptureInv
  <1>1. CaptureInv /\ UNCHANGED vars => CaptureInv'
    BY DEF vars, CaptureInv, TypeOK, VsyncFlagFresh, pioVars, cameraVars
  <1>2. CaptureInv /\ [Next]_vars => CaptureInv'
    BY <1>1, FirmwareStep, HandlerStep, CameraStep DEF Next
  <1> QED
    BY <1>2, InitCapture, PTL DEF Spec

\* No capture begins on the Vsync flag that an earlier one left.
THEOREM VsyncFlagFreshHolds == Spec => []VsyncFlagFresh
  <1>1. CaptureInv => VsyncFlagFresh
    BY DEF CaptureInv
  <1> QED
    BY <1>1, CaptureInvariant, PTL

\* pio_capture_to_buffer() never fails, so that its result may be ignored.
THEOREM BanksFreeHolds == Spec => []BanksFree
  <1>1. CaptureInv => BanksFree
    BY DEF CaptureInv, BanksFree
  <1> QED
    BY <1>1, CaptureInvariant, PTL

-----------------------------------------------------------------------------
(* What the buffer holds. *)

\* What FrameByte says of a frame that has both its markers.
LEMMA FrameBytes ==
    ASSUME NEW n \in Nat, n >= 4, NEW p \in 0 .. n - 1
    PROVE  /\ (FrameByte(n, p) = "FF" <=> p \in {0, n - 2})
           /\ (FrameByte(n, p) = "D8" <=> p = 1)
           /\ (FrameByte(n, p) = "D9" <=> p = n - 1)
  BY DEF FrameByte

LEMMA CaptureFacts ==
    ASSUME CaptureInv
    PROVE  /\ rcr \in 0 .. MAX_IMAGE_SIZE /\ frame \in 0 .. MaxFrame /\ pos \in 0 .. frame
           /\ Filled \in 0 .. MAX_IMAGE_SIZE /\ Origin \in Int /\ Origin <= Filled
           /\ image_buffer \in [Index -> Byte] /\ rncr = 0
           /\ pc = "stop" => rcr = 0
           /\ (pcen <=> pc \in {"program", "fill", "stop"})
           /\ pc # "fill" => rcr = 0
  BY DEF CaptureInv, TypeOK, Filled, Origin

\* A frame that is complete in the buffer has been caught.
LEMMA CompleteIsCaught ==
    ASSUME CaptureInv, CameraInv, Origin < MaxFrame, NoStart(Origin),
           HoldsFrame(Origin, frame, Filled), Origin >= 0, pos = frame, frame # 0
    PROVE  Caught
  <1>1. Origin \in 0 .. MaxFrame - 1 /\ frame \in 4 .. MaxFrame
    BY CaptureFacts DEF CameraInv
  <1>2. Origin + frame = Filled
    BY CaptureFacts DEF Origin
  <1> QED
    BY <1>1, <1>2, CaptureFacts DEF Caught

\* The program's steps outside CaptureToBuffer leave the buffer and the camera.
LEMMA SameFrame ==
    ASSUME UNCHANGED <<image_buffer, rcr, pos, frame>>
    PROVE  /\ Filled' = Filled /\ Origin' = Origin
           /\ \A t : NoStart(t)' <=> NoStart(t)
           /\ (Caught \/ Catching) => (Caught \/ Catching)'
  BY DEF Filled, Origin, NoStart, Caught, Catching, HoldsFrame

LEMMA InitFrame == Init => FrameInv
  BY InitCapture DEF Init, FrameInv, CameraInv

LEMMA FirmwareFrame ==
    FrameInv /\ CaptureInv' /\ (EnableVsync \/ Firmware \/ PIOA_Handler \/ UNCHANGED vars)
        => FrameInv'
  <1> SUFFICES ASSUME FrameInv, CaptureInv',
                      EnableVsync \/ Firmware \/ PIOA_Handler \/ UNCHANGED vars
               PROVE  FrameInv'
    OBVIOUS
  <1> USE DEF pioVars, cameraVars
  <1>0. CaptureInv /\ CameraInv /\ (pc \in {"fill", "stop"} => Caught \/ Catching)
    BY DEF FrameInv
  <1>1. UNCHANGED <<image_buffer, vsync, frame, pos>>
    BY DEF EnableVsync, Firmware, VsyncSeen, EnableCapture, CaptureToBuffer,
           BufferFull, StopCapture, PIOA_Handler, vars
  <1>2. CameraInv'
    BY <1>0, <1>1 DEF CameraInv
  <1>3. CASE CaptureToBuffer
    <2>1. rcr = 0 /\ rncr = 0
      BY <1>0, <1>3 DEF CaptureInv, CaptureToBuffer
    <2>2. rcr' = MAX_IMAGE_SIZE
      BY <1>3, <2>1 DEF CaptureToBuffer
    <2>3. Filled' = 0 /\ Origin' = 0 - pos /\ pos \in Nat
      BY <1>0, <1>1, <2>2, CaptureFacts DEF Filled, Origin
    <2>4. Catching'
      BY <2>2, <2>3 DEF Catching, NoStart, HoldsFrame, Index
    <2> QED
      BY <1>0, <1>2, <2>4 DEF FrameInv
  <1>4. CASE ~CaptureToBuffer
    <2>1. UNCHANGED <<image_buffer, rcr, pos, frame>>
      BY <1>1, <1>4 DEF EnableVsync, Firmware, VsyncSeen, EnableCapture,
                        BufferFull, StopCapture, PIOA_Handler, vars
    <2>2. pc' \in {"fill", "stop"} => pc \in {"fill", "stop"}
      BY <1>4 DEF EnableVsync, Firmware, VsyncSeen, EnableCapture,
                  BufferFull, StopCapture, PIOA_Handler, vars
    <2> QED
      BY <1>0, <1>2, <2>1, <2>2, SameFrame DEF FrameInv
  <1> QED
    BY <1>3, <1>4

LEMMA StartFrame == FrameInv /\ CaptureInv' /\ FrameStart => FrameInv'
  <1> SUFFICES ASSUME FrameInv, CaptureInv', FrameStart PROVE FrameInv'
    OBVIOUS
  <1>0. CaptureInv /\ CameraInv /\ (pc \in {"fill", "stop"} => Caught \/ Catching)
    BY DEF FrameInv
  <1>1. /\ frame' \in 4 .. MaxFrame /\ pos' = 0 /\ pos = frame /\ vsync'
        /\ UNCHANGED <<pc, image_buffer, rcr>>
    BY <1>0 DEF FrameStart, CameraInv, pioVars
  <1>2. CameraInv'
    BY <1>1 DEF CameraInv
  <1>3. Filled' = Filled /\ Origin' = Filled
    BY <1>1, <1>0, CaptureFacts DEF Filled, Origin
  <1>4. Caught => Caught'
    BY <1>1, <1>3 DEF Caught, NoStart, HoldsFrame
  <1>5. ASSUME Catching, ~Caught PROVE Catching'
    <2>1. rcr > 0 /\ Origin < MaxFrame /\ NoStart(Origin) /\ HoldsFrame(Origin, frame, Filled)
      BY <1>5 DEF Catching
    <2>2. frame = 0 \/ Origin < 0
      BY <1>0, <1>1, <1>5, <2>1, CompleteIsCaught, CaptureFacts
    <2>3. Filled < MaxFrame
      BY <1>0, <1>1, <2>1, <2>2, CaptureFacts DEF Origin
    <2>4. NoStart(Filled)
      <3>1. CASE frame = 0
        BY <1>0, <1>1, <2>1, <3>1, CaptureFacts DEF Origin
      <3>2. CASE frame # 0
        <4> SUFFICES ASSUME NEW i \in 0 .. Filled - 1, image_buffer[i] = "FF"
                     PROVE  i + 1 < Filled /\ image_buffer[i + 1] # "D8"
          BY DEF NoStart
        <4>1. /\ frame >= 4 /\ frame \in Nat /\ Origin < 0 /\ Filled \in Nat
              /\ Origin \in Int /\ Filled - Origin = frame /\ Filled <= MAX_IMAGE_SIZE
          BY <1>0, <1>1, <2>2, <3>2, CaptureFacts DEF CameraInv, Origin
        <4>2. i \in Index /\ image_buffer[i] = FrameByte(frame, i - Origin)
          BY <2>1, <4>1 DEF HoldsFrame, Index
        <4>3. i - Origin \in 0 .. frame - 1 /\ i - Origin # 0
          BY <4>1
        <4>4. i - Origin = frame - 2
          BY <4>1, <4>2, <4>3, FrameBytes
        <4>5. i + 1 < Filled /\ i + 1 \in Index
          BY <4>1, <4>4 DEF Index
        <4>6. image_buffer[i + 1] = FrameByte(frame, (i + 1) - Origin)
          BY <2>1, <4>1, <4>5 DEF HoldsFrame
        <4>7. (i + 1) - Origin = frame - 1 /\ frame - 1 \in 0 .. frame - 1 /\ frame - 1 # 1
          BY <4>1, <4>4
        <4>8. FrameByte(frame, frame - 1) # "D8"
          BY <4>1, <4>7, FrameBytes
        <4> QED
          BY <4>5, <4>6, <4>7, <4>8
      <3> QED
        BY <3>1, <3>2
    <2>5. NoStart(Origin)' /\ HoldsFrame(Origin, frame, Filled)'
      BY <1>0, <1>1, <1>3, <2>4, CaptureFacts DEF NoStart, HoldsFrame, Index
    <2> QED
      BY <1>1, <1>3, <2>1, <2>3, <2>5 DEF Catching
  <1> QED
    BY <1>0, <1>1, <1>2, <1>4, <1>5 DEF FrameInv

LEMMA EndFrame == FrameInv /\ CaptureInv' /\ FrameEnd => FrameInv'
  BY SameFrame DEF FrameInv, FrameEnd, CameraInv, pioVars

LEMMA DataFrame == FrameInv /\ CaptureInv' /\ FrameData => FrameInv'
  <1> SUFFICES ASSUME FrameInv, CaptureInv', FrameData PROVE FrameInv'
    OBVIOUS
  <1>0. CaptureInv /\ CameraInv /\ (pc \in {"fill", "stop"} => Caught \/ Catching)
    BY DEF FrameInv
  <1>1. /\ vsync /\ vsync' /\ pos < frame /\ pos' = pos + 1 /\ UNCHANGED <<pc, frame>>
        /\ frame \in 4 .. MaxFrame /\ pos \in 0 .. frame
    BY <1>0, CaptureFacts DEF FrameData, CameraInv
  <1>2. CameraInv'
    BY <1>1 DEF CameraInv
  <1> SUFFICES ASSUME pc \in {"fill", "stop"} PROVE (Caught \/ Catching)'
    BY <1>1, <1>2 DEF FrameInv
  <1>3. CASE rcr = 0
    <2>1. UNCHANGED <<image_buffer, rcr>>
      BY <1>0, <1>3, CaptureFacts DEF FrameData
    <2>2. Caught
      BY <1>0, <1>3 DEF Catching
    <2> QED
      BY <1>1, <2>1, <2>2 DEF Caught, Filled, NoStart, HoldsFrame
  <1>4. CASE rcr # 0
    <2>1. /\ pcen /\ rcr > 0 /\ rcr \in Nat /\ Filled \in Index /\ Filled = MAX_IMAGE_SIZE - rcr
          /\ rncr = 0
      BY <1>0, <1>4, CaptureFacts DEF Filled, Index
    <2>2. /\ image_buffer' = [image_buffer EXCEPT ![Filled] = FrameByte(frame, pos)]
          /\ rcr' = rcr - 1
      BY <2>1 DEF FrameData
    <2>3. /\ \A i \in Index : i # Filled => image_buffer'[i] = image_buffer[i]
          /\ image_buffer'[Filled] = FrameByte(frame, pos)
      BY <1>0, <2>1, <2>2, CaptureFacts
    <2>4. Filled' = Filled + 1 /\ Origin' = Origin
      BY <1>1, <2>1, <2>2 DEF Filled, Origin
    <2>5. ASSUME NEW t \in Int, t <= Filled, NoStart(t) PROVE NoStart(t)'
      BY <2>1, <2>3, <2>5 DEF NoStart, Index
    <2>6. Caught => Caught'
      <3> SUFFICES ASSUME NEW s \in 0 .. MaxFrame - 1, NEW n \in 4 .. MaxFrame,
                          s + n <= Filled, NoStart(s), HoldsFrame(s, n, s + n)
                   PROVE  s + n <= Filled' /\ NoStart(s)' /\ HoldsFrame(s, n, s + n)'
        BY DEF Caught
      <3>1. NoStart(s)'
        BY <2>1, <2>5 DEF Index
      <3>2. HoldsFrame(s, n, s + n)'
        BY <2>1, <2>3 DEF HoldsFrame, Index
      <3> QED
        BY <2>1, <2>4, <3>1, <3>2 DEF Index
    <2>7. ASSUME Catching PROVE (Caught \/ Catching)'
      <3>1. Origin < MaxFrame /\ NoStart(Origin) /\ HoldsFrame(Origin, frame, Filled)
        BY <2>7 DEF Catching
      <3>2. NoStart(Origin)'
        BY <1>0, <2>4, <2>5, <3>1, CaptureFacts DEF NoStart
      <3>3. HoldsFrame(Origin, frame, Filled)'
        <4> SUFFICES ASSUME NEW i \in Index, Origin <= i, i < Filled + 1
                     PROVE  image_buffer'[i] = FrameByte(frame, i - Origin)
          BY <1>1, <2>4 DEF HoldsFrame
        <4>1. CASE i < Filled
          BY <2>3, <3>1, <4>1 DEF HoldsFrame, Index
        <4>2. CASE i = Filled
          BY <1>0, <1>1, <2>3, <4>2, CaptureFacts DEF Origin
        <4> QED
          BY <2>1, <4>1, <4>2 DEF Index
      <3>4. CASE rcr' > 0
        BY <2>4, <3>1, <3>2, <3>3, <3>4 DEF Catching
      <3>5. CASE ~(rcr' > 0)
        <4>1. Filled' = MAX_IMAGE_SIZE
          BY <2>1, <2>2, <2>4, <3>5
        <4>2. Origin' >= 0 /\ pos' = frame'
          BY <1>0, <1>1, <2>1, <2>4, <3>1, <4>1, CaptureFacts DEF Origin
        <4>3. Caught'
          <5>1. Origin' \in 0 .. MaxFrame - 1 /\ frame' \in 4 .. MaxFrame
            BY <1>0, <1>1, <2>4, <3>1, <4>2, CaptureFacts
          <5>2. Origin' + frame' = Filled'
            BY <1>0, <1>1, <2>4, <4>2, CaptureFacts DEF Origin
          <5> QED
            BY <3>2, <3>3, <5>1, <5>2 DEF Caught
        <4> QED
          BY <4>3
      <3> QED
        BY <3>4, <3>5
    <2> QED
      BY <1>0, <2>6, <2>7
  <1> QED
    BY <1>3, <1>4

\* While the buffer fills it holds the rest of one frame and then a frame from
\* its start on, whatever an earlier capture left in it.
THEOREM FrameInvariant == Spec => []FrameInv
  <1>1. CaptureInv /\ UNCHANGED vars => CaptureInv'
    BY DEF vars, CaptureInv, TypeOK, VsyncFlagFresh, pioVars, cameraVars
  <1>2. FrameInv /\ [Next]_vars => FrameInv'
    <2> SUFFICES ASSUME FrameInv, [Next]_vars PROVE FrameInv'
      OBVIOUS
    <2>1. CaptureInv'
      BY <1>1, FirmwareStep, HandlerStep, CameraStep DEF Next, FrameInv
    <2> QED
      BY <2>1, FirmwareFrame, StartFrame, DataFrame, EndFrame DEF Next, Camera
  <1> QED
    BY <1>2, InitFrame, PTL DEF Spec

\* A frame that lies in the buffer behind no start marker is its image.
LEMMA CaughtIsImage ==
    ASSUME CaptureInv, Filled = MAX_IMAGE_SIZE, Caught
    PROVE  \E s \in Index, e \in Index :
             /\ IsImage(image_buffer, MAX_IMAGE_SIZE, s, e)
             /\ \A j \in s + 1 .. e : j \notin Starts(image_buffer, MAX_IMAGE_SIZE)
  <1>1. PICK s \in 0 .. MaxFrame - 1, n \in 4 .. MaxFrame :
           s + n <= MAX_IMAGE_SIZE /\ NoStart(s) /\ HoldsFrame(s, n, s + n)
    BY DEF Caught
  <1> DEFINE Bt(i) == image_buffer[i]
             e == s + n - 1
             Inner == 0 .. MAX_IMAGE_SIZE - 2
  <1>2. s \in Inner /\ e \in Index /\ e - 1 \in Inner /\ s \in Nat /\ n \in Nat /\ n >= 4
    BY <1>1 DEF Index
  <1>3. \A i \in s .. e : Bt(i) = FrameByte(n, i - s)
    BY <1>1, <1>2 DEF HoldsFrame, Index
  <1>4. \A i \in s .. e : /\ (Bt(i) = "FF" <=> i \in {s, e - 1})
                         /\ (Bt(i) = "D8" <=> i = s + 1)
                         /\ (Bt(i) = "D9" <=> i = e)
    <2> SUFFICES ASSUME NEW i \in s .. e
                 PROVE  /\ (Bt(i) = "FF" <=> i \in {s, e - 1})
                        /\ (Bt(i) = "D8" <=> i = s + 1)
                        /\ (Bt(i) = "D9" <=> i = e)
      OBVIOUS
    <2>1. i - s \in 0 .. n - 1
      BY <1>2
    <2> HIDE DEF Bt
    <2> QED
      BY <1>2, <1>3, <2>1, FrameBytes
  <1>5. \A i \in 0 .. s - 1 : Bt(i) = "FF" => Bt(i + 1) # "D8"
    <2> SUFFICES ASSUME NEW i \in 0 .. s - 1, Bt(i) = "FF"
                 PROVE  Bt(i + 1) # "D8"
      OBVIOUS
    <2> QED
      BY <1>1 DEF NoStart
  <1> DEFINE St == Starts(image_buffer, MAX_IMAGE_SIZE)
             En == EndsAfter(image_buffer, MAX_IMAGE_SIZE, s)
  <1>6. \A i \in Inner : i \in St <=> Bt(i) = "FF" /\ Bt(i + 1) = "D8"
    BY DEF Starts, Marker, Index
  <1>7. \A i \in Inner : i \in En <=> i > s /\ Bt(i) = "FF" /\ Bt(i + 1) = "D9"
    BY DEF EndsAfter, Marker, Index
  <1>8. St \subseteq Inner /\ En \subseteq Inner
    BY DEF Starts, EndsAfter, Index
  <1> HIDE DEF Bt, St, En
  <1>9. s \in St /\ \A j \in St : s <= j
    <2>1. s \in s .. e /\ s + 1 \in s .. e
      BY <1>2
    <2>2. s \in St
      BY <1>2, <1>4, <1>6, <2>1
    <2>3. \A j \in St : j \in Inner /\ (j < s => j \in 0 .. s - 1)
      BY <1>2, <1>8 DEF Index
    <2> QED
      BY <1>2, <1>5, <1>6, <2>2, <2>3 DEF Index
  <1>10. e - 1 \in En /\ \A j \in En : e - 1 <= j
    <2>1. e - 1 \in s .. e /\ e \in s .. e /\ e - 1 > s /\ (e - 1) + 1 = e
      BY <1>2
    <2>2. e - 1 \in En
      BY <1>2, <1>4, <1>7, <2>1
    <2>3. \A j \in En : j \in Inner /\ j > s /\ (j < e - 1 => j \in s .. e /\ j \notin {s, e - 1})
      BY <1>2, <1>7, <1>8 DEF Index
    <2> QED
      BY <1>2, <1>4, <1>7, <2>2, <2>3 DEF Index
  <1>11. \A j \in s + 1 .. e : j \notin St
    <2> SUFFICES ASSUME NEW j \in s + 1 .. e, j \in St PROVE FALSE
      OBVIOUS
    <2>1. j \in s .. e /\ j \in Inner
      BY <1>2, <1>8
    <2>2. j = e - 1 /\ Bt(j + 1) = "D8"
      BY <1>2, <1>4, <1>6, <2>1
    <2>3. e \in s .. e /\ j + 1 = e /\ e # s + 1
      BY <1>2, <2>2
    <2> QED
      BY <1>4, <2>2, <2>3
  <1>12. IsImage(image_buffer, MAX_IMAGE_SIZE, s, e)
    BY <1>9, <1>10 DEF IsImage, IsFirst, St, En
  <1> QED
    BY <1>2, <1>11, <1>12 DEF St, Index

\* Wherever in a frame a capture begins, and whatever lengths the frames have,
\* the image find_image_len() delimits is one whole frame of the camera.
THEOREM CapturesWholeFrameHolds == Spec => []CapturesWholeFrame
  <1>1. FrameInv => CapturesWholeFrame
    <2> SUFFICES ASSUME FrameInv, pc = "stop"
                 PROVE  \E s \in Index, e \in Index :
                          /\ IsImage(image_buffer, MAX_IMAGE_SIZE, s, e)
                          /\ \A j \in s + 1 .. e :
                                j \notin Starts(image_buffer, MAX_IMAGE_SIZE)
      BY DEF CapturesWholeFrame
    <2>1. CaptureInv /\ rcr = 0 /\ Filled = MAX_IMAGE_SIZE
      BY CaptureFacts DEF FrameInv, Filled
    <2>2. Caught
      BY <2>1 DEF FrameInv, Catching
    <2> QED
      BY <2>1, <2>2, CaughtIsImage
  <1> QED
    BY <1>1, FrameInvariant, PTL
=============================================================================
