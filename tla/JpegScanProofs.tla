--------------------------- MODULE JpegScanProofs ---------------------------
(* Theorems about find_image_len(), for every buffer of every size. *)
EXTENDS JpegScan, TLAPS

LEMMA ZeroInRange ==
    /\ 0 \in 0 .. MAX_IMAGE_SIZE /\ 0 \in 0 .. MAX_IMAGE_SIZE - 1
    /\ 0 \in 0 .. WordMod - 1
  BY SizeAssumption

\* An entered search knows nothing yet.
LEMMA Entered ==
    ASSUME pc = "scan", image_buffer \in Buffer, behind \in Byte, ii = 0,
           endindex = 0, soi_found = FALSE, eoi_found = FALSE, startindex = 0,
           image_size = 0, retval \in {0, 1}
    PROVE  ScanInv
  <1>1. TypeOK
    BY ZeroInRange DEF TypeOK
  <1>2. StartKnown /\ EndKnown /\ Result
    BY DEF StartKnown, EndKnown, Result
  <1> QED
    BY <1>1, <1>2 DEF ScanInv

LEMMA InitScan == Init => ScanInv
  BY Entered DEF Init

\* One iteration, by what it finds at ii.
LEMMA IterateScan == ScanInv /\ Iterate => ScanInv'
  <1> SUFFICES ASSUME ScanInv, Iterate PROVE ScanInv'
    OBVIOUS
  <1> USE SizeAssumption
  <1> DEFINE M(code, i) == Marker(Memory, code, i)
  <1>1. /\ ii \in 0 .. MAX_IMAGE_SIZE - 1 /\ ii' = ii + 1
        /\ image_buffer' = image_buffer /\ pc' = "scan"
        /\ endindex \in Nat /\ startindex \in Nat
        /\ Memory' = Memory
    BY DEF Iterate, ScanInv, TypeOK, Memory
  <1>2. ~(M("D8", ii) /\ M("D9", ii))
    BY DEF Marker
  <1>3. \A code : M(code, ii) <=> At(code)
    BY DEF At
  <1>a. soi_found \in BOOLEAN /\ eoi_found \in BOOLEAN
    BY DEF ScanInv, TypeOK
  <1>4. /\ soi_found' = (soi_found \/ M("D8", ii))
        /\ startindex' = IF M("D8", ii) /\ ~soi_found THEN ii ELSE startindex
        /\ eoi_found' =
             (eoi_found \/ (M("D9", ii) /\ soi_found /\ ~eoi_found))
        /\ endindex' =
             IF M("D9", ii) /\ soi_found /\ ~eoi_found THEN ii + 1 ELSE endindex
    BY <1>2, <1>3 DEF Iterate, ScanInv, TypeOK
  <1>5. \A code, i : Marker(Memory', code, i) <=> M(code, i)
    BY <1>1
  <1> HIDE DEF M
  <1>6. TypeOK'
    <2>1. startindex' \in 0 .. MAX_IMAGE_SIZE - 1 /\ endindex' \in 0 .. MAX_IMAGE_SIZE
      BY <1>1, <1>4 DEF ScanInv, TypeOK
    <2>2. soi_found' \in BOOLEAN /\ eoi_found' \in BOOLEAN
      BY <1>4
    <2> QED
      BY <1>1, <2>1, <2>2 DEF Iterate, ScanInv, TypeOK
  <1>7. StartKnown'
    <2>1. /\ soi_found => /\ startindex < ii /\ M("D8", startindex)
                          /\ \A j \in 0 .. startindex - 1 : ~M("D8", j)
          /\ ~soi_found => /\ startindex = 0 /\ ~eoi_found
                           /\ \A j \in 0 .. ii - 1 : ~M("D8", j)
      BY DEF ScanInv, StartKnown, M
    <2> SUFFICES
          /\ soi_found' => /\ startindex' < ii' /\ M("D8", startindex')
                           /\ \A j \in 0 .. startindex' - 1 : ~M("D8", j)
          /\ ~soi_found' => /\ startindex' = 0 /\ ~eoi_found'
                            /\ \A j \in 0 .. ii' - 1 : ~M("D8", j)
      BY <1>5 DEF StartKnown
    <2>2. CASE soi_found
      <3>1. soi_found' /\ startindex' = startindex
        BY <1>4, <2>2
      <3> QED
        BY <1>1, <2>1, <2>2, <3>1
    <2>3. CASE ~soi_found /\ M("D8", ii)
      <3>1. soi_found' /\ startindex' = ii
        BY <1>4, <2>3
      <3> QED
        BY <1>1, <2>1, <2>3, <3>1
    <2>4. CASE ~soi_found /\ ~M("D8", ii)
      <3>1. ~soi_found' /\ startindex' = startindex /\ ~eoi_found'
        BY <1>4, <2>1, <2>4
      <3>2. \A j \in 0 .. ii' - 1 : j \in 0 .. ii - 1 \/ j = ii
        BY <1>1
      <3> QED
        BY <2>1, <2>4, <3>1, <3>2
    <2> QED
      BY <2>2, <2>3, <2>4
  <1>8. EndKnown'
    <2>1. /\ eoi_found => /\ startindex < endindex - 1 /\ endindex <= ii
                          /\ M("D9", endindex - 1)
                          /\ \A j \in startindex + 1 .. endindex - 2 : ~M("D9", j)
          /\ ~eoi_found =>
               /\ endindex = 0
               /\ soi_found => \A j \in startindex + 1 .. ii - 1 : ~M("D9", j)
          /\ soi_found => startindex < ii
          /\ ~soi_found => ~eoi_found
      BY DEF ScanInv, StartKnown, EndKnown, M
    <2> SUFFICES
          /\ eoi_found' => /\ startindex' < endindex' - 1 /\ endindex' <= ii'
                           /\ M("D9", endindex' - 1)
                           /\ \A j \in startindex' + 1 .. endindex' - 2 : ~M("D9", j)
          /\ ~eoi_found' =>
               /\ endindex' = 0
               /\ soi_found' => \A j \in startindex' + 1 .. ii' - 1 : ~M("D9", j)
      BY <1>5 DEF EndKnown
    <2>2. CASE eoi_found
      <3>1. eoi_found' /\ startindex' = startindex /\ endindex' = endindex
        BY <1>4, <2>1, <2>2
      <3> QED
        BY <1>1, <2>1, <2>2, <3>1
    <2>3. CASE ~eoi_found /\ soi_found /\ M("D9", ii)
      <3>1. eoi_found' /\ startindex' = startindex /\ endindex' = ii + 1
        BY <1>4, <2>3
      <3>2. endindex' - 1 = ii /\ endindex' - 2 = ii - 1
        BY <1>1, <3>1
      <3> QED
        BY <1>1, <2>1, <2>3, <3>1, <3>2
    <2>4. CASE ~eoi_found /\ soi_found /\ ~M("D9", ii)
      <3>1. ~eoi_found' /\ startindex' = startindex /\ endindex' = endindex
        BY <1>4, <2>4
      <3>2. \A j \in startindex + 1 .. ii' - 1 : j \in startindex + 1 .. ii - 1 \/ j = ii
        BY <1>1
      <3> QED
        BY <2>1, <2>4, <3>1, <3>2
    <2>5. CASE ~soi_found
      <3>1. ~eoi_found' /\ endindex' = 0
        BY <1>4, <2>1, <2>5
      <3>2. soi_found' => startindex' = ii
        BY <1>4, <2>5
      <3>3. soi_found' => startindex' + 1 > ii' - 1
        BY <1>1, <3>2
      <3> QED
        BY <1>1, <3>1, <3>2, <3>3
    <2> QED
      BY <2>2, <2>3, <2>4, <2>5
  <1>9. Result'
    BY <1>1 DEF Result
  <1> QED
    BY <1>6, <1>7, <1>8, <1>9 DEF ScanInv

LEMMA FinishScan == ScanInv /\ Finish => ScanInv'
  <1> SUFFICES ASSUME ScanInv, Finish PROVE ScanInv'
    OBVIOUS
  <1>1. endindex - startindex + 1 \in Int
    BY SizeAssumption DEF ScanInv, TypeOK
  <1>2. \A n \in Int : n % WordMod \in 0 .. WordMod - 1
    BY SizeAssumption
  <1>3. image_size' \in 0 .. WordMod - 1 /\ retval' \in {0, 1}
    BY <1>1, <1>2 DEF Finish, Size
  <1>4. ii = MAX_IMAGE_SIZE
    BY SizeAssumption DEF Finish, ScanInv, TypeOK
  <1> QED
    BY <1>3, <1>4
       DEF Finish, Size, ScanInv, TypeOK, StartKnown, EndKnown, Result, Memory

LEMMA RecaptureScan == ScanInv /\ Recapture => ScanInv'
  <1> SUFFICES ASSUME ScanInv, Recapture PROVE ScanInv'
    OBVIOUS
  <1>1. /\ pc' = "scan" /\ image_buffer' \in Buffer /\ ii' = 0 /\ endindex' = 0
        /\ soi_found' = FALSE /\ eoi_found' = FALSE /\ startindex' = 0
        /\ image_size' = 0 /\ retval' \in {0, 1} /\ behind' \in Byte
    BY DEF Recapture, Reset, Enter, ScanInv, TypeOK
  <1>2. TypeOK'
    BY <1>1, ZeroInRange DEF TypeOK
  <1>3. (StartKnown /\ EndKnown /\ Result)'
    BY <1>1 DEF StartKnown, EndKnown, Result
  <1> QED
    BY <1>2, <1>3 DEF ScanInv

\* The loop invariant, for a buffer of any size.
THEOREM ScanInvariant == Spec => []ScanInv
  <1>1. ScanInv /\ UNCHANGED vars => ScanInv'
    BY DEF vars, ScanInv, TypeOK, StartKnown, EndKnown, Result, Memory
  <1>2. ScanInv /\ [Next]_vars => ScanInv'
    BY <1>1, IterateScan, FinishScan, RecaptureScan DEF Next
  <1> QED
    BY <1>2, InitScan, PTL DEF Spec

\* No length that can occur is confused with another one by the uint32_t.
LEMMA SizeExact ==
    ASSUME ScanInv, pc = "done", eoi_found
    PROVE  image_size = endindex - startindex + 1 /\ image_size > 0
  <1>1. endindex - startindex + 1 \in 1 .. WordMod - 1
    BY SizeAssumption DEF ScanInv, TypeOK, EndKnown
  <1>2. \A n \in 1 .. WordMod - 1 : n % WordMod = n
    BY SizeAssumption
  <1> QED
    BY <1>1, <1>2 DEF ScanInv, Result

\* If an image is in the buffer, find_image_len() returns 1 and delimits it.
THEOREM FindsTheImageHolds == Spec => []FindsTheImage
  <1>1. ScanInv => FindsTheImage
    <2> SUFFICES ASSUME ScanInv, pc = "done",
                        NEW s \in 0 .. MAX_IMAGE_SIZE - 1,
                        NEW e \in 1 .. MAX_IMAGE_SIZE,
                        IsImage(image_buffer, MAX_IMAGE_SIZE, s, e)
                 PROVE  /\ retval = 1
                        /\ startindex = s /\ startindex + image_size - 1 = e
                        /\ e < MAX_IMAGE_SIZE
      BY DEF FindsTheImage
    <2> USE SizeAssumption
    <2> DEFINE M(code, i) == Marker(Memory, code, i)
    <2>1. /\ ii = MAX_IMAGE_SIZE
          /\ startindex \in 0 .. MAX_IMAGE_SIZE - 1
          /\ endindex \in 0 .. MAX_IMAGE_SIZE
      BY DEF ScanInv, TypeOK, Result
    <2>m. \A code, j : j \in 0 .. MAX_IMAGE_SIZE - 2 =>
             (M(code, j) <=> Marker(image_buffer, code, j))
      BY DEF Marker, Memory
    <2>2. /\ s \in 0 .. MAX_IMAGE_SIZE - 2 /\ M("D8", s)
          /\ \A j \in 0 .. MAX_IMAGE_SIZE - 2 : M("D8", j) => s <= j
      BY <2>m DEF IsImage, IsFirst, Starts
    <2>3. /\ e - 1 > s /\ e - 1 \in 0 .. MAX_IMAGE_SIZE - 2 /\ M("D9", e - 1)
          /\ \A j \in 0 .. MAX_IMAGE_SIZE - 2 : j > s /\ M("D9", j) => e - 1 <= j
      BY <2>m DEF IsImage, IsFirst, EndsAfter
    <2> HIDE DEF M
    <2>s. /\ soi_found =>
               /\ M("D8", startindex)
               /\ \A j \in 0 .. startindex - 1 : ~M("D8", j)
          /\ ~soi_found => \A j \in 0 .. MAX_IMAGE_SIZE - 1 : ~M("D8", j)
      BY <2>1 DEF ScanInv, StartKnown, M
    <2>e. /\ eoi_found =>
               /\ startindex < endindex - 1 /\ M("D9", endindex - 1)
               /\ \A j \in startindex + 1 .. endindex - 2 : ~M("D9", j)
          /\ ~eoi_found /\ soi_found =>
               \A j \in startindex + 1 .. MAX_IMAGE_SIZE - 1 : ~M("D9", j)
      BY <2>1 DEF ScanInv, EndKnown, M
    <2>4. soi_found
      BY <2>2, <2>s
    <2>5. startindex = s
      <3>1. ~(s < startindex)
        BY <2>1, <2>2, <2>4, <2>s
      <3>2. ~(startindex < s)
        BY <2>1, <2>2, <2>4, <2>s
      <3> QED
        BY <2>1, <3>1, <3>2
    <2>6. eoi_found
      BY <2>3, <2>4, <2>5, <2>e
    <2>7. endindex = e
      <3>1. e <= endindex
        BY <2>1, <2>3, <2>5, <2>6, <2>e
      <3>2. ~(e < endindex)
        BY <2>1, <2>3, <2>5, <2>6, <2>e
      <3> QED
        BY <2>1, <3>1, <3>2
    <2>8. e < MAX_IMAGE_SIZE
      BY <2>3
    <2>9. image_size = e - s + 1 /\ image_size > 0
      BY <2>5, <2>6, <2>7, SizeExact
    <2>10. retval = 1
      BY <2>9 DEF ScanInv, Result
    <2> QED
      BY <2>1, <2>5, <2>8, <2>9, <2>10
  <1> QED
    BY <1>1, ScanInvariant, PTL

\* Below the width of an uint32_t only the length 0 is stored as 0.
LEMMA ZeroStoredOnce ==
    ASSUME NEW n \in Int, -WordMod < n, n < WordMod, n % WordMod = 0
    PROVE  n = 0
  <1> USE SizeAssumption
  <1>1. CASE n \in 0 .. WordMod - 1
    BY <1>1
  <1>2. CASE n < 0
    <2>1. n + WordMod \in 1 .. WordMod - 1
      BY <1>2
    <2>2. (n + WordMod) % WordMod = n + WordMod
      BY <2>1
    <2>3. n % WordMod = n + WordMod
      BY <1>2, <2>1
    <2> QED
      BY <2>1, <2>3
  <1> QED
    BY <1>1, <1>2

\* camera.c:202 "retval = 0 on error": in a buffer of any size it is 0 for the
\* one image without an end whose start marker is the second byte.
THEOREM ReportsNullLengthHolds == Spec => []ReportsNullLength
  <1>1. ScanInv => ReportsNullLength
    <2> SUFFICES ASSUME ScanInv, pc = "done"
                 PROVE  retval = 0 <=> NullLength(Memory, MAX_IMAGE_SIZE + 1)
      BY DEF ReportsNullLength
    <2> USE SizeAssumption
    <2> DEFINE M(code, i) == Marker(Memory, code, i)
    <2>1. /\ ii = MAX_IMAGE_SIZE /\ endindex \in Nat
          /\ startindex \in 0 .. MAX_IMAGE_SIZE - 1
          /\ image_size = (endindex - startindex + 1) % WordMod
          /\ retval = 0 <=> image_size = 0
      BY DEF ScanInv, TypeOK, Result
    <2>2. /\ soi_found =>
               /\ startindex < ii /\ M("D8", startindex)
               /\ \A j \in 0 .. startindex - 1 : ~M("D8", j)
          /\ ~soi_found => startindex = 0 /\ ~eoi_found
                           /\ \A j \in 0 .. ii - 1 : ~M("D8", j)
      BY DEF ScanInv, StartKnown
    <2>3. /\ eoi_found =>
               startindex < endindex - 1 /\ endindex <= ii /\ M("D9", endindex - 1)
          /\ ~eoi_found =>
               /\ endindex = 0
               /\ soi_found => \A j \in startindex + 1 .. ii - 1 : ~M("D9", j)
      BY DEF ScanInv, EndKnown
    <2>n. NullLength(Memory, MAX_IMAGE_SIZE + 1) <=>
            /\ 1 \in 0 .. MAX_IMAGE_SIZE - 1 /\ M("D8", 1)
            /\ \A j \in 0 .. MAX_IMAGE_SIZE - 1 : M("D8", j) => 1 <= j
            /\ \A j \in 0 .. MAX_IMAGE_SIZE - 1 : j > 1 => ~M("D9", j)
      BY DEF NullLength, IsFirst, Starts, EndsAfter
    <2> HIDE DEF M
    <2>4. ASSUME NullLength(Memory, MAX_IMAGE_SIZE + 1) PROVE retval = 0
      <3>1. soi_found
        BY <2>1, <2>2, <2>n, <2>4
      <3>2. startindex = 1
        <4>1. ~(startindex > 1)
          BY <2>1, <2>2, <2>n, <2>4, <3>1
        <4>2. startindex >= 1
          BY <2>1, <2>2, <2>n, <2>4, <3>1
        <4> QED
          BY <2>1, <4>1, <4>2
      <3>3. ~eoi_found
        <4>1. ASSUME eoi_found PROVE FALSE
          <5>1. endindex - 1 \in 0 .. MAX_IMAGE_SIZE - 1 /\ endindex - 1 > 1
            BY <2>1, <2>3, <3>2, <4>1
          <5> QED
            BY <2>3, <2>n, <2>4, <4>1, <5>1
        <4> QED
          BY <4>1
      <3>4. endindex - startindex + 1 = 0
        BY <2>3, <3>2, <3>3
      <3>5. 0 % WordMod = 0
        OBVIOUS
      <3> QED
        BY <2>1, <3>4, <3>5
    <2>5. ASSUME retval = 0 PROVE NullLength(Memory, MAX_IMAGE_SIZE + 1)
      <3>1. ~eoi_found
        BY <2>1, <2>5, SizeExact
      <3>2. endindex = 0
        BY <2>3, <3>1
      <3>3. /\ 1 - startindex \in Int /\ -WordMod < 1 - startindex
            /\ 1 - startindex < WordMod /\ (1 - startindex) % WordMod = 0
        <4>1. endindex - startindex + 1 = 1 - startindex
          BY <2>1, <3>2
        <4> QED
          BY <2>1, <2>5, <4>1
      <3>4. startindex = 1
        <4>1. 1 - startindex = 0
          BY <3>3, ZeroStoredOnce
        <4> QED
          BY <2>1, <4>1
      <3>5. soi_found
        BY <2>2, <3>4
      <3>6. \A j \in 0 .. MAX_IMAGE_SIZE - 1 : M("D8", j) => 1 <= j
        BY <2>2, <3>4, <3>5
      <3>7. \A j \in 0 .. MAX_IMAGE_SIZE - 1 : j > 1 => ~M("D9", j)
        BY <2>1, <2>3, <3>1, <3>4, <3>5
      <3> QED
        BY <2>1, <2>2, <2>n, <3>4, <3>5, <3>6, <3>7
    <2> QED
      BY <2>4, <2>5
  <1> QED
    BY <1>1, ScanInvariant, PTL
=============================================================================
