----------------------------- MODULE JpegMarkers -----------------------------
(***************************************************************************)
(* What "the JPEG image in a buffer" means, without reference to how it is *)
(* searched for: the bytes from the first start-of-image marker FF D8 to   *)
(* the first end-of-image marker FF D9 after it (camera.c:198-239).        *)
(* A byte is one of the three that matter, or "xx", any other.             *)
(***************************************************************************)
EXTENDS Integers

Byte == {"FF", "D8", "D9", "xx"}

Marker(buf, code, i) == buf[i] = "FF" /\ buf[i + 1] = code

IsFirst(i, P) == i \in P /\ \A j \in P : i <= j

\* Where the markers are that lie within the first size bytes of buf.
Starts(buf, size) == {i \in 0 .. size - 2 : Marker(buf, "D8", i)}
EndsAfter(buf, size, s) ==
    {i \in 0 .. size - 2 : i > s /\ Marker(buf, "D9", i)}

\* s is where the image starts, e the last byte of its end marker.
IsImage(buf, size, s, e) ==
    /\ IsFirst(s, Starts(buf, size))
    /\ IsFirst(e - 1, EndsAfter(buf, size, s))

\* The start marker is the second byte and no end marker follows it: the one
\* case in which the computed length, 0 - 1 + 1, is 0.
NullLength(buf, size) ==
    IsFirst(1, Starts(buf, size)) /\ EndsAfter(buf, size, 1) = {}
=============================================================================
