------------------------------ MODULE JpegScan ------------------------------
(***************************************************************************)
(* find_image_len() (camera.c:205): the loop over the captured bytes, the  *)
(* globals it leaves for write_image_to_file(), and its result.  Between   *)
(* two calls start_capture() fills the buffer anew, with any bytes.        *)
(*                                                                         *)
(* The loop reads one byte more than the buffer has, image_buffer[ii+1]    *)
(* for its last ii (camera.c:217).  That byte belongs to the variable that *)
(* the linker put there, pio_capture_enable_flag in the committed build    *)
(* (debug/webcam_firmware_v6.map); here it is any byte.                    *)
(***************************************************************************)
EXTENDS JpegMarkers

CONSTANTS MAX_IMAGE_SIZE,
          WordMod           \* number of values of an uint32_t

ASSUME SizeAssumption ==
    /\ MAX_IMAGE_SIZE \in Nat \ {0}
    /\ WordMod \in Nat /\ WordMod > 2 * MAX_IMAGE_SIZE

VARIABLES
    pc,                 \* "scan" in the loop, "done" after the return
    image_buffer,
    behind,             \* the byte after image_buffer
    ii, endindex, soi_found, eoi_found,      \* locals
    startindex, image_size,                  \* globals
    retval

vars == <<pc, image_buffer, behind, ii, endindex, soi_found, eoi_found,
          startindex, image_size, retval>>

Buffer == [0 .. MAX_IMAGE_SIZE - 1 -> Byte]

\* What the search reads.
Memory ==
    [i \in 0 .. MAX_IMAGE_SIZE |->
        IF i < MAX_IMAGE_SIZE THEN image_buffer[i] ELSE behind]

At(code) == Marker(Memory, code, ii)

Enter(start) ==
    /\ ii' = 0 /\ endindex' = 0 /\ soi_found' = FALSE /\ eoi_found' = FALSE
    /\ startindex' = start /\ image_size' = 0

StartNotReset == Enter(startindex)

Reset == Enter(0)

Init ==
    /\ pc = "scan" /\ image_buffer \in Buffer /\ behind \in Byte
    /\ ii = 0 /\ endindex = 0 /\ soi_found = FALSE /\ eoi_found = FALSE
    /\ startindex = 0 /\ image_size = 0 /\ retval = 0

FindsLastEnd ==
    /\ pc = "scan" /\ ii < MAX_IMAGE_SIZE
    /\ LET soi == At("D8") /\ ~soi_found
           eoi == At("D9") /\ (soi_found \/ soi)
       IN /\ soi_found' = (soi_found \/ soi)
          /\ startindex' = IF soi THEN ii ELSE startindex
          /\ eoi_found' = (eoi_found \/ eoi)
          /\ endindex' = IF eoi THEN ii + 1 ELSE endindex
    /\ ii' = ii + 1
    /\ UNCHANGED <<pc, image_buffer, behind, image_size, retval>>

\* One iteration.
Iterate ==
    /\ pc = "scan" /\ ii < MAX_IMAGE_SIZE
    /\ LET soi == At("D8") /\ ~soi_found
           eoi == At("D9") /\ (soi_found \/ soi) /\ ~eoi_found
       IN /\ soi_found' = (soi_found \/ soi)
          /\ startindex' = IF soi THEN ii ELSE startindex
          /\ eoi_found' = (eoi_found \/ eoi)
          /\ endindex' = IF eoi THEN ii + 1 ELSE endindex
    /\ ii' = ii + 1
    /\ UNCHANGED <<pc, image_buffer, behind, image_size, retval>>

SizeOffByOne == (endindex - startindex) % WordMod

\* endindex - startindex + 1, stored in an uint32_t.
Size == (endindex - startindex + 1) % WordMod

Finish ==
    /\ pc = "scan" /\ ii >= MAX_IMAGE_SIZE
    /\ pc' = "done"
    /\ image_size' = Size
    /\ retval' = IF image_size' # 0 THEN 1 ELSE 0
    /\ UNCHANGED <<image_buffer, behind, ii, endindex, soi_found, eoi_found,
                   startindex>>

\* The next capture overwrites the whole buffer and calls the search again.
Recapture ==
    /\ pc = "done"
    /\ pc' = "scan"
    /\ image_buffer' \in Buffer
    /\ Reset
    /\ UNCHANGED <<behind, retval>>

Next == Iterate \/ Finish \/ Recapture

Spec == Init /\ [][Next]_vars

-----------------------------------------------------------------------------
\* Every variable has its type; the indices are int and uint32_t.
TypeOK ==
    /\ pc \in {"scan", "done"} /\ image_buffer \in Buffer /\ behind \in Byte
    /\ ii \in 0 .. MAX_IMAGE_SIZE
    /\ endindex \in 0 .. MAX_IMAGE_SIZE
    /\ startindex \in 0 .. MAX_IMAGE_SIZE - 1
    /\ soi_found \in BOOLEAN /\ eoi_found \in BOOLEAN
    /\ image_size \in 0 .. WordMod - 1 /\ retval \in {0, 1}

\* What an iteration knows: the marker found is the first of its kind among
\* the bytes seen, and a marker not found is not among them.
StartKnown ==
    /\ soi_found =>
         /\ startindex < ii
         /\ Marker(Memory, "D8", startindex)
         /\ \A j \in 0 .. startindex - 1 :
                ~Marker(Memory, "D8", j)
    /\ ~soi_found =>
         /\ startindex = 0 /\ ~eoi_found
         /\ \A j \in 0 .. ii - 1 :
                ~Marker(Memory, "D8", j)

EndKnown ==
    /\ eoi_found =>
         /\ startindex < endindex - 1 /\ endindex <= ii
         /\ Marker(Memory, "D9", endindex - 1)
         /\ \A j \in startindex + 1 .. endindex - 2 :
                ~Marker(Memory, "D9", j)
    /\ ~eoi_found =>
         /\ endindex = 0
         /\ soi_found => \A j \in startindex + 1 .. ii - 1 :
                ~Marker(Memory, "D9", j)

Result ==
    pc = "done" => /\ ii = MAX_IMAGE_SIZE
                   /\ image_size = (endindex - startindex + 1) % WordMod
                   /\ retval = IF image_size # 0 THEN 1 ELSE 0

\* The loop invariant, and what it leaves behind at the end.
ScanInv == TypeOK /\ StartKnown /\ EndKnown /\ Result

\* If there is an image in the buffer, the search returns 1 and delimits exactly
\* that image, which lies inside the buffer, whatever else the buffer holds and
\* whatever lies behind it.
FindsTheImage ==
    pc = "done" =>
      \A s \in 0 .. MAX_IMAGE_SIZE - 1, e \in 1 .. MAX_IMAGE_SIZE :
        IsImage(image_buffer, MAX_IMAGE_SIZE, s, e) =>
          /\ retval = 1
          /\ startindex = s /\ startindex + image_size - 1 = e
          /\ e < MAX_IMAGE_SIZE

\* camera.c:202 "retval = 0 on error", and how little of that is true: the only
\* error it reports is a start marker in the second byte with no end after it,
\* in the bytes that the search reads.
ReportsNullLength ==
    pc = "done" => (retval = 0 <=> NullLength(Memory, MAX_IMAGE_SIZE + 1))

\* camera.c:201-203: the result is 1 only if the markers were found, so at least
\* only if there is a start marker.
SuccessMeansStart ==
    pc = "done" /\ retval = 1 => Starts(Memory, MAX_IMAGE_SIZE + 1) # {}
=============================================================================
