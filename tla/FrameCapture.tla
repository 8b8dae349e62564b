---------------------------- MODULE FrameCapture ----------------------------
(***************************************************************************)
(* start_capture() (camera.c:160): wait for the Vsync interrupt, let the   *)
(* PIO capture unit and its PDC channel fill the image buffer, stop.       *)
(* The camera (external) outputs frames, one JPEG image each, whatever the *)
(* firmware does; Vsync is high during a frame.  Data that arrives while   *)
(* capture is off or the PDC channel has nothing to fill is dropped.       *)
(*                                                                         *)
(* The buffer is counted in bytes, the PDC in words of four; the model     *)
(* counts both in bytes.                                                   *)
(***************************************************************************)
EXTENDS JpegMarkers

CONSTANTS MAX_IMAGE_SIZE,
          MaxFrame          \* length of the longest frame, in bytes

\* Two of the camera's frames, but for one byte, fit the buffer.
ASSUME FrameAssumption ==
    /\ MaxFrame \in Nat /\ MaxFrame >= 4
    /\ MAX_IMAGE_SIZE \in Nat /\ MAX_IMAGE_SIZE >= 2 * MaxFrame - 1

VARIABLES
    pc,                     \* where start_capture() is
    g_ul_vsync_flag, image_capture_success, image_buffer,
    (* PIOA and its PDC channel *)
    isr,                    \* Vsync bit of PIO_ISR: the edge that set it
    imr,                    \* Vsync bit of PIO_IMR
    pcen,                   \* parallel capture enabled
    rcr, rncr,              \* bytes left in the two PDC banks
    (* the camera *)
    vsync, frame, pos       \* level, length of the frame, bytes of it sent

pioVars    == <<pcen, rcr, rncr>>
cameraVars == <<vsync, frame, pos>>
vars == <<pc, g_ul_vsync_flag, image_capture_success, image_buffer, isr, imr,
          pioVars, cameraVars>>

Index == 0 .. MAX_IMAGE_SIZE - 1
NoEdge == "none"

\* Byte p of a frame of length n.
FrameByte(n, p) ==
    CASE p = 0     -> "FF"
      [] p = 1     -> "D8"
      [] p = n - 2 -> "FF"
      [] p = n - 1 -> "D9"
      [] OTHER     -> "xx"

Init ==
    /\ pc = "idle"
    /\ g_ul_vsync_flag = FALSE /\ image_capture_success = FALSE
    /\ image_buffer = [i \in Index |-> "xx"]
    /\ isr = NoEdge /\ imr = FALSE
    /\ pcen = FALSE /\ rcr = 0 /\ rncr = 0
    /\ vsync = FALSE /\ frame = 0 /\ pos = 0

-----------------------------------------------------------------------------
(* start_capture() *)

\* pio_enable_interrupt() sets the mask; an edge seen before stays in PIO_ISR.
EnableVsync ==
    /\ pc = "idle"
    /\ pc' = "await" /\ imr' = TRUE
    /\ UNCHANGED <<g_ul_vsync_flag, image_capture_success, image_buffer, isr,
                   pioVars, cameraVars>>

\* while (!g_ul_vsync_flag)
VsyncSeen ==
    /\ pc = "await" /\ g_ul_vsync_flag
    /\ pc' = "mask"
    /\ UNCHANGED <<g_ul_vsync_flag, image_capture_success, image_buffer, isr,
                   imr, pioVars, cameraVars>>

InterruptLeftOn ==
    /\ pc = "mask"
    /\ pc' = "program" /\ pcen' = TRUE
    /\ UNCHANGED <<g_ul_vsync_flag, image_capture_success, image_buffer, isr,
                   imr, rcr, rncr, cameraVars>>

CaptureNotEnabled ==
    /\ pc = "mask"
    /\ pc' = "program" /\ imr' = FALSE
    /\ UNCHANGED <<g_ul_vsync_flag, image_capture_success, image_buffer, isr,
                   pioVars, cameraVars>>

\* pio_disable_interrupt(), pio_capture_enable()
EnableCapture ==
    /\ pc = "mask"
    /\ pc' = "program" /\ imr' = FALSE /\ pcen' = TRUE
    /\ UNCHANGED <<g_ul_vsync_flag, image_capture_success, image_buffer, isr,
                   rcr, rncr, cameraVars>>

HalfTheBuffer ==
    /\ pc = "program"
    /\ pc' = "fill"
    /\ rcr' = MAX_IMAGE_SIZE \div 2
    /\ UNCHANGED <<g_ul_vsync_flag, image_capture_success, image_buffer, isr,
                   imr, pcen, rncr, cameraVars>>

\* pio_capture_to_buffer(); start_capture() ignores its result.
CaptureToBuffer ==
    /\ pc = "program"
    /\ pc' = "fill"
    /\ \/ rcr = 0 /\ rncr = 0 /\ rcr' = MAX_IMAGE_SIZE /\ UNCHANGED rncr
       \/ rcr # 0 /\ rncr = 0 /\ rncr' = MAX_IMAGE_SIZE /\ UNCHANGED rcr
       \/ rncr # 0 /\ UNCHANGED <<rcr, rncr>>
    /\ UNCHANGED <<g_ul_vsync_flag, image_capture_success, image_buffer, isr,
                   imr, pcen, cameraVars>>

FullNotAwaited ==
    /\ pc = "fill"
    /\ pc' = "stop"
    /\ UNCHANGED <<g_ul_vsync_flag, image_capture_success, image_buffer, isr,
                   imr, pioVars, cameraVars>>

\* while (!RXBUFF)
BufferFull ==
    /\ pc = "fill" /\ rcr = 0 /\ rncr = 0
    /\ pc' = "stop"
    /\ UNCHANGED <<g_ul_vsync_flag, image_capture_success, image_buffer, isr,
                   imr, pioVars, cameraVars>>

FlagNotReset ==
    /\ pc = "stop"
    /\ pc' = "idle" /\ pcen' = FALSE
    /\ image_capture_success' =
         (image_capture_success \/ ~NullLength(image_buffer, MAX_IMAGE_SIZE))
    /\ UNCHANGED <<g_ul_vsync_flag, image_buffer, isr, imr, rcr, rncr,
                   cameraVars>>

\* pio_capture_disable(), the flag's reset, and find_image_len(), whose result
\* module JpegScan computes.
StopCapture ==
    /\ pc = "stop"
    /\ pc' = "idle" /\ pcen' = FALSE /\ g_ul_vsync_flag' = FALSE
    /\ image_capture_success' =
         (image_capture_success \/ ~NullLength(image_buffer, MAX_IMAGE_SIZE))
    /\ UNCHANGED <<image_buffer, isr, imr, rcr, rncr, cameraVars>>

-----------------------------------------------------------------------------
\* PIOA_Handler, run for the Vsync pin or for another pin of the port: reading
\* PIO_ISR clears every bit of it, and vsync_handler() is called if the Vsync
\* bit was set and enabled.
PIOA_Handler ==
    /\ isr # NoEdge
    /\ isr' = NoEdge
    /\ g_ul_vsync_flag' = (imr \/ g_ul_vsync_flag)
    /\ UNCHANGED <<pc, image_capture_success, image_buffer, imr, pioVars,
                   cameraVars>>

-----------------------------------------------------------------------------
(* The camera (external).  OV_VSYNC_TYPE selects no additional interrupt    *)
(* mode (pio_configure_interrupt), so both edges set the bit of PIO_ISR.    *)

FrameStart ==
    /\ ~vsync
    /\ vsync' = TRUE /\ isr' = "rise"
    /\ frame' \in 4 .. MaxFrame /\ pos' = 0
    /\ UNCHANGED <<pc, g_ul_vsync_flag, image_capture_success, image_buffer,
                   imr, pioVars>>

\* One byte; the PDC stores it, and goes on to its second bank when the first
\* is full.
FrameData ==
    /\ vsync /\ pos < frame
    /\ pos' = pos + 1
    /\ IF pcen /\ rcr > 0
         THEN /\ image_buffer' = [image_buffer EXCEPT ![MAX_IMAGE_SIZE - rcr] =
                                    FrameByte(frame, pos)]
              /\ rcr' = IF rcr = 1 THEN rncr ELSE rcr - 1
              /\ rncr' = IF rcr = 1 THEN 0 ELSE rncr
         ELSE UNCHANGED <<image_buffer, rcr, rncr>>
    /\ UNCHANGED <<pc, g_ul_vsync_flag, image_capture_success, isr, imr, pcen,
                   vsync, frame>>

FrameEnd ==
    /\ vsync /\ pos = frame
    /\ vsync' = FALSE /\ isr' = "fall"
    /\ UNCHANGED <<pc, g_ul_vsync_flag, image_capture_success, image_buffer,
                   imr, pioVars, frame, pos>>

-----------------------------------------------------------------------------
Firmware == VsyncSeen \/ EnableCapture \/ CaptureToBuffer \/ BufferFull \/ StopCapture
Camera == FrameStart \/ FrameData \/ FrameEnd

Next == EnableVsync \/ Firmware \/ PIOA_Handler \/ Camera

Spec == Init /\ [][Next]_vars

\* The processor runs, an enabled pending interrupt is served, the camera
\* keeps sending frames.
FairSpec == Spec /\ WF_vars(Firmware) /\ WF_vars(imr /\ PIOA_Handler) /\ WF_vars(Camera)

-----------------------------------------------------------------------------
\* Every variable has its type.
TypeOK ==
    /\ pc \in {"idle", "await", "mask", "program", "fill", "stop"}
    /\ g_ul_vsync_flag \in BOOLEAN /\ image_capture_success \in BOOLEAN
    /\ image_buffer \in [Index -> Byte]
    /\ isr \in {NoEdge, "rise", "fall"} /\ imr \in BOOLEAN
    /\ pcen \in BOOLEAN
    /\ rcr \in 0 .. MAX_IMAGE_SIZE /\ rncr \in 0 .. MAX_IMAGE_SIZE
    /\ vsync \in BOOLEAN /\ frame \in 0 .. MaxFrame /\ pos \in 0 .. frame

\* No edge of an earlier capture is left in the flag: the wait of the next one
\* is ended by an interrupt that it enabled itself, although the flag is reset
\* only at the end and the interrupt may fire again before it is disabled.
VsyncFlagFresh == pc = "idle" => ~g_ul_vsync_flag

\* pio_capture_to_buffer() fails when both banks are taken, which start_capture()
\* does not check: it always finds them free.
BanksFree == pc = "program" => rcr = 0 /\ rncr = 0

\* What an induction needs for these two: the interrupt is enabled only from the
\* start of the wait to the capture, the capture unit only from there to its
\* stop, and the channel counts only while the buffer fills.
CaptureInv ==
    /\ TypeOK
    /\ imr <=> pc \in {"await", "mask"}
    /\ pcen <=> pc \in {"program", "fill", "stop"}
    /\ pc # "fill" => rcr = 0
    /\ rncr = 0
    /\ VsyncFlagFresh

\* The camera is between frames, or in one that has both its markers.
CameraInv == (frame = 0 \/ frame >= 4) /\ (~vsync => pos = frame)

\* What this capture has written, and where in the buffer the camera's last
\* frame began: below 0 if it began before the capture.
Filled == MAX_IMAGE_SIZE - rcr
Origin == Filled - pos

\* No start marker begins in the first t bytes.
NoStart(t) ==
    \A i \in 0 .. t - 1 :
        image_buffer[i] = "FF" => i + 1 < t /\ image_buffer[i + 1] # "D8"

\* The buffer, before byte m, is a frame of length n from byte s on.
HoldsFrame(s, n, m) ==
    \A i \in Index : s <= i /\ i < m => image_buffer[i] = FrameByte(n, i - s)

\* A whole frame, and before it not even the start of one.
Caught ==
    \E s \in 0 .. MaxFrame - 1, n \in 4 .. MaxFrame :
        s + n <= Filled /\ NoStart(s) /\ HoldsFrame(s, n, s + n)

\* The rest of the frame in which the capture began, and then what the camera
\* has sent of the next.
Catching ==
    rcr > 0 /\ Origin < MaxFrame /\ NoStart(Origin) /\ HoldsFrame(Origin, frame, Filled)

\* The inductive invariant of CapturesWholeFrame: what the buffer holds while
\* it fills, whatever it held before.
FrameInv ==
    CaptureInv /\ CameraInv /\ (pc \in {"fill", "stop"} => Caught \/ Catching)

\* Wherever in a frame the capture began, the image that find_image_len()
\* delimits is one frame of the camera: an image is there, and no second frame
\* starts inside it.
CapturesWholeFrame ==
    pc = "stop" =>
      \E s \in Index, e \in Index :
        /\ IsImage(image_buffer, MAX_IMAGE_SIZE, s, e)
        /\ \A j \in s + 1 .. e : j \notin Starts(image_buffer, MAX_IMAGE_SIZE)

\* A capture ends, although neither of its two waits has a timeout, as long as
\* the camera keeps sending frames.
CaptureReturns == pc # "idle" ~> pc = "idle"
=============================================================================
